---- MODULE Spec2Model ----
(***************************************************************************)
(* Minesweeper (hippich/minesweeper): the learning-mode probability engine *)
(* ProbabilityCalculator.calculateProbabilities (subset-analysis version), *)
(* its helpers partitionConstraints and solveConstraints, the board        *)
(* queries of MinesweeperBoard they read, and the earlier version of       *)
(* src/ai/ProbabilityCalculator.ts (narrowing and constraint averages).    *)
(*                                                                         *)
(* One call of calculateProbabilities is modelled as a run                 *)
(*    ready --Extract--> propagating --Pass*--> solved --Fill--> done      *)
(* one call of getDefinitiveCells as that run followed by                  *)
(*    done --Definitive--> definitive                                      *)
(* and one call of the earlier version as the single step                  *)
(*    ready --CallBasic--> doneBasic.                                      *)
(* Spec runs the calls on every small board, SpecChain on two long boards  *)
(* on which the propagation loop stops at its cap of passes, SpecLadder on *)
(* boards with more clues than the subset comparison looks at, SpecTwice   *)
(* two calls in a row on one snapshot, SpecWide on boards with a component *)
(* of more than 20 cells, SpecStar on boards where three clues meet in one *)
(* cell. SpecGame plays the game around the calculator: GameEngine,        *)
(* StateManager's undo history, and the map that Controls computes for the *)
(* Renderer when learning mode is on; SpecPlay plays longer games with the *)
(* learning mode off, SpecCustom the first click of a custom game,         *)
(* SpecSession a game with its timer, fresh or resumed from storage,       *)
(* SpecMoves one game without undo, SpecManager StateManager on its own.   *)
(* Probabilities are exact rationals <<numerator, denominator>> in lowest  *)
(* terms; the code computes them in IEEE doubles.                          *)
(***************************************************************************)
EXTENDS Integers, Sequences, FiniteSets, TLC

\* ---------------------------------------------------------------- bounds
Rows == 2
Cols == 3
RowCols == 6              \* length of the one-row boards
MaxAdj == 2               \* adjacentMines of an input cell ranges over 0..MaxAdj
MaxMinesRemaining == 2    \* minesRemaining ranges over -NegMinesRemaining..MaxMinesRemaining
NegMinesRemaining == 1
ChainCols == 174          \* the long two-row boards of SpecChain are this wide or one less
ChainClue == 2            \* its clues, all but the first
ChainEndClue == 3         \* its first clue, which asks for more mines than it has cells
LadderCols == 52          \* columns of the boards with more than compareCap clues
WideCols == 10            \* columns of the three-row boards
WideClue == 2             \* their clues right of the varied ones
WideVaried == 4           \* the clues in columns 1..WideVaried range over 1, WideClue, WideBigClue
WideBigClue == 8          \* a clue that asks for more mines than it has cells
GameRows == 2             \* the board of the games played
GameCols == 3
GameMines == 2            \* a game is configured with 1..GameMines mines
MaxHistory == 3           \* a click or a flag starts only with fewer snapshots than this
MaxPlayHistory == 6       \* the same for a click with the learning mode off
MaxFlagHistory == 2       \* the same for a flag with the learning mode off
ManagerStates == 3        \* the distinct snapshots handed to StateManager.saveState
MaxSaved == 4             \* saveState starts below this length, or at the maximum size
MaxSize == 3              \* setMaxHistorySize is called with -1..MaxSize
MaxElapsed == 1           \* a session's timer ticks up to MaxElapsed seconds
SavedElapsed == 1         \* a saved game is SavedElapsed seconds old
MaxSessionHistory == 3    \* a session's cell is clicked with fewer snapshots than this,
MaxSessionFlagHistory == 2  \* a flag toggled with fewer than this
MaxMovesHistory == 5      \* without undo, a cell is clicked with fewer snapshots than this,
MaxMovesFlagHistory == 5  \* a flag toggled with fewer than this
CustomRows == 5           \* a custom game has CustomRows - 1 or CustomRows rows,
CustomCols == 5           \* CustomCols columns
CustomMines == 20         \* and 0, CustomMines, rows * cols - 1 or rows * cols mines,
                          \* if isValidConfig accepts that

\* ------------------------------------------------------ program constants
maxIterations == 100
compareCap == 50
groupCellCap == 20
combinationCap == 1048576
maxSolutions == 10000
defaultMaxHistorySize == 100
timeCap == 9999

VARIABLES
  board,            \* MinesweeperBoard.board: [rows, cols, cells]
  pc,               \* position inside calculateProbabilities
  minesRemaining,   \* the call's second argument
  unrevealedCells,  \* Set<string>
  constraints,      \* Array<{cells: string[]; mines: number}>
  knownSafe,        \* Set<string>
  knownMines,       \* Set<string>
  changed,          \* loop flag
  iterations,       \* loop counter
  result,           \* ProbabilityMap, a function key -> rational
  extracted,        \* history: the constraint list as first built (lines 31-55)
  forcedMine,       \* history: cells of a narrowed constraint with mines = #cells
  forcedSafe,       \* history: cells of a narrowed non-empty constraint with mines = 0
  safeCells,        \* getDefinitiveCells: the coordinates pushed to safe
  mineCells,        \* getDefinitiveCells: the coordinates pushed to mines
  calls,            \* history: how many invocations have been started on this snapshot
  firstResult,      \* history: the map the first invocation returned
  idlePasses,       \* history: the passes of this call that found nothing new
  gameState,        \* GameEngine.gameState without its board: status, minesRemaining, ...
  stateHistory,     \* StateManager.stateHistory: GameState snapshots
  learningModeEnabled,  \* Controls.learningModeEnabled
  rendererProbabilities,  \* Renderer.probabilities
  observed,         \* history: the events emitted and the last move of the current game
  maxHistorySize,   \* StateManager.maxHistorySize
  timerInterval,    \* GameEngine.timerInterval: the number of intervals that are running
  shared            \* the snapshots of stateHistory whose objects the engine holds

vars == <<board, pc, minesRemaining, unrevealedCells, constraints, knownSafe,
          knownMines, changed, iterations, result, extracted, forcedMine, forcedSafe,
          safeCells, mineCells, calls, firstResult, idlePasses,
          gameState, stateHistory, learningModeEnabled, rendererProbabilities, observed,
          maxHistorySize, timerInterval, shared>>

\* ------------------------------------------------------------- utilities
Min2(a, b) == IF a <= b THEN a ELSE b
Max2(a, b) == IF a >= b THEN a ELSE b

ToSet(s) == {s[i] : i \in 1..Len(s)}
Indices(n) == [i \in 1..n |-> i]

\* A for loop: Body(i, st) for i = lo, lo+1, ..., hi in this order, each on the
\* outcome of the one before. The range is run first half, then second half, and
\* "left = left" makes TLC evaluate the first half's outcome before it goes on:
\* both only keep the evaluation stack shallow on long lists.
RECURSIVE ForRange(_, _, _, _)
ForRange(Body(_, _), lo, hi, st) ==
  IF lo > hi THEN st
  ELSE IF lo = hi THEN Body(lo, st)
  ELSE LET left == ForRange(Body, lo, (lo + hi) \div 2, st)
       IN  IF left = left THEN ForRange(Body, (lo + hi) \div 2 + 1, hi, left) ELSE left

RECURSIVE Pow2(_)
Pow2(n) == IF n = 0 THEN 1 ELSE 2 * Pow2(n - 1)

RECURSIVE Gcd(_, _)
Gcd(a, b) == IF b = 0 THEN a ELSE Gcd(b, a % b)

\* Rationals: <<n, d>> with d > 0, in lowest terms.
Rat(n, d) ==
  LET g == Gcd(IF n < 0 THEN -n ELSE n, d)
  IN  <<n \div g, d \div g>>
RInt(n) == <<n, 1>>
RZero == <<0, 1>>
ROne == <<1, 1>>
RHalf == <<1, 2>>
RAdd(p, q) == Rat(p[1] * q[2] + q[1] * p[2], p[2] * q[2])
RSub(p, q) == Rat(p[1] * q[2] - q[1] * p[2], p[2] * q[2])
RDivInt(p, k) == Rat(p[1], p[2] * k)
RLe(p, q) == p[1] * q[2] <= q[1] * p[2]
RMax(p, q) == IF RLe(p, q) THEN q ELSE p
RMin(p, q) == IF RLe(p, q) THEN p ELSE q
\* a variant of Clamp01 that forgets the upper bound
ClampBelow(x) == RMax(RZero, x)
\* Math.max(0, Math.min(1, x))
Clamp01(x) == RMax(RZero, RMin(ROne, x))

\* ----------------------------------------------------------------- board
\* The Board record of types.ts: rows, cols, mines, minesGenerated and cells,
\* the grid as a function <<row, col>> -> Cell.
Positions(b) == (0..(b.rows - 1)) \X (0..(b.cols - 1))

\* Row-major scan order of the two nested for loops.
ScanOrder(b) == [i \in 1..(b.rows * b.cols) |-> <<(i - 1) \div b.cols, (i - 1) % b.cols>>]

\* Board.cellKey: `${row},${col}`
cellKey(row, col) == ToString(row) \o "," \o ToString(col)

isValidCell(b, row, col) == row >= 0 /\ row < b.rows /\ col >= 0 /\ col < b.cols

directions == << <<-1, -1>>, <<-1, 0>>, <<-1, 1>>,
                 <<0, -1>>,             <<0, 1>>,
                 <<1, -1>>,  <<1, 0>>,  <<1, 1>> >>

\* Board.getNeighbors: the in-bounds neighbours, in the order of directions.
RECURSIVE NeighborsFrom(_, _, _, _)
NeighborsFrom(b, row, col, i) ==
  IF i > Len(directions) THEN <<>>
  ELSE LET newRow == row + directions[i][1]
           newCol == col + directions[i][2]
       IN  (IF isValidCell(b, newRow, newCol) THEN << <<newRow, newCol>> >> ELSE <<>>)
             \o NeighborsFrom(b, row, col, i + 1)
getNeighbors(b, row, col) == NeighborsFrom(b, row, col, 1)

\* The Cell record of types.ts (row and col are the function's argument).
HiddenCell == [isMine |-> FALSE, adjacentMines |-> 0, isRevealed |-> FALSE, isFlagged |-> FALSE]
FlaggedCell == [HiddenCell EXCEPT !.isFlagged = TRUE]
RevealedCell(adj) == [HiddenCell EXCEPT !.isRevealed = TRUE, !.adjacentMines = adj]

\* The cells a caller can hand to the calculator: hidden, flagged, or revealed
\* with a clue (what the tests' setRevealed and the engine produce), on a board
\* as the constructor leaves it: mines as given (the tests give 0) and
\* minesGenerated false.
InputCells == {HiddenCell, FlaggedCell} \cup {RevealedCell(a) : a \in 0..MaxAdj}
BoardsOf(r, c) ==
  {[rows |-> r, cols |-> c, mines |-> 0, minesGenerated |-> FALSE, cells |-> cs] :
     cs \in [(0..(r - 1)) \X (0..(c - 1)) -> InputCells]}
\* every Rows x Cols board and every board of one row of RowCols cells
InputBoards == BoardsOf(Rows, Cols) \cup BoardsOf(1, RowCols)
\* A long board: a row of clues over a row of hidden cells. The clue at the
\* right end forces its two cells; every pass of the loop carries the deduction
\* a little further left, against the scan order.
ChainBoard(n) ==
  [rows |-> 2, cols |-> n, mines |-> 0, minesGenerated |-> FALSE,
   cells |-> [p \in (0..1) \X (0..(n - 1)) |->
                IF p[1] = 1 THEN HiddenCell
                ELSE IF p[2] = 0 THEN RevealedCell(ChainEndClue)
                ELSE RevealedCell(ChainClue)]]
\* A board of the same shape with more than compareCap clues: the clues at the
\* two ends are given, the ones between are ChainClue.
LadderBoard(n, left, right) ==
  [rows |-> 2, cols |-> n, mines |-> 0, minesGenerated |-> FALSE,
   cells |-> [p \in (0..1) \X (0..(n - 1)) |->
                IF p[1] = 1 THEN HiddenCell
                ELSE IF p[2] = 0 THEN RevealedCell(left)
                ELSE IF p[2] = n - 1 THEN RevealedCell(right)
                ELSE RevealedCell(ChainClue)]]
\* A board of three rows: a row of clues, hidden at its two ends, between two
\* rows of hidden cells. No clue's cells lie inside another's, so the hidden
\* cells stay one component that propagation leaves as it is. The first
\* WideVaried clues are given, the others are WideClue.
WideBoard(n, clues) ==
  [rows |-> 3, cols |-> n, mines |-> 0, minesGenerated |-> FALSE,
   cells |-> [p \in (0..2) \X (0..(n - 1)) |->
                IF p[1] # 1 \/ p[2] = 0 \/ p[2] = n - 1 THEN HiddenCell
                ELSE IF p[2] <= WideVaried THEN RevealedCell(clues[p[2]])
                ELSE RevealedCell(WideClue)]]
\* A board of 3 x 4 cells where three clues meet in the hidden cell (1,1) and
\* each sees one more hidden cell of its own; the cell (2,0) touches no clue.
\* The four cells between the clues are flagged or revealed without a clue
\* (flagged[p]), and each clue counts its flagged neighbours and base[p] more.
StarClues == {<<0, 0>>, <<0, 2>>, <<2, 2>>}
StarBlockers == {<<0, 1>>, <<1, 2>>, <<1, 3>>, <<2, 3>>}
StarBoard(flagged, base) ==
  [rows |-> 3, cols |-> 4, mines |-> 0, minesGenerated |-> FALSE,
   cells |-> [p \in (0..2) \X (0..3) |->
                IF p \in StarBlockers
                  THEN (IF flagged[p] THEN FlaggedCell ELSE RevealedCell(0))
                ELSE IF p \in StarClues
                  THEN RevealedCell(base[p] + Cardinality({q \in StarBlockers :
                                      /\ flagged[q]
                                      /\ p[1] - q[1] \in {-1, 0, 1}
                                      /\ p[2] - q[2] \in {-1, 0, 1}}))
                ELSE HiddenCell]]
InputMinesRemaining == (0 - NegMinesRemaining)..MaxMinesRemaining

IsUnknown(b, p) == ~b.cells[p].isRevealed /\ ~b.cells[p].isFlagged

\* ------------------------------------------------- constraint extraction
\* lines 37-39: the unrevealed, unflagged cells
\* a variant of UnrevealedOf that forgets the flags
UnrevealedOfAnyFlag(b) == {cellKey(p[1], p[2]) : p \in {q \in Positions(b) : ~b.cells[q].isRevealed}}
UnrevealedOf(b) == {cellKey(p[1], p[2]) : p \in {q \in Positions(b) : IsUnknown(b, q)}}

\* a variant of ConstraintOfCell that does not subtract the flagged neighbours
ConstraintOfCellIgnoringFlags(b, p) ==
  LET neighbors == getNeighbors(b, p[1], p[2])
      unknown == SelectSeq(neighbors, LAMBDA n : ~b.cells[n].isRevealed /\ ~b.cells[n].isFlagged)
      remainingMines == b.cells[p].adjacentMines
  IN  IF b.cells[p].isRevealed /\ b.cells[p].adjacentMines > 0 /\ Len(unknown) > 0
      THEN << [cells |-> [i \in 1..Len(unknown) |-> cellKey(unknown[i][1], unknown[i][2])],
               mines |-> remainingMines] >>
      ELSE <<>>
\* lines 41-53 for one cell: the constraint it contributes, as a 0/1-element list
ConstraintOfCell(b, p) ==
  LET neighbors == getNeighbors(b, p[1], p[2])
      unknown == SelectSeq(neighbors, LAMBDA n : ~b.cells[n].isRevealed /\ ~b.cells[n].isFlagged)
      flagged == SelectSeq(neighbors, LAMBDA n : b.cells[n].isFlagged)
      remainingMines == b.cells[p].adjacentMines - Len(flagged)
  IN  IF b.cells[p].isRevealed /\ b.cells[p].adjacentMines > 0
        /\ Len(unknown) > 0 /\ remainingMines >= 0
      THEN << [cells |-> [i \in 1..Len(unknown) |-> cellKey(unknown[i][1], unknown[i][2])],
               mines |-> remainingMines] >>
      ELSE <<>>

\* lines 31-55
BuildConstraints(b) ==
  ForRange(LAMBDA i, acc : acc \o ConstraintOfCell(b, ScanOrder(b)[i]), 1, b.rows * b.cols, <<>>)

\* ------------------------------------------------------ propagation pass
\* lines 68-84: narrow one constraint against the known sets
RemainingCells(c, ks, km) == SelectSeq(c.cells, LAMBDA key : key \notin ks /\ key \notin km)
\* variants of MinesLeft: without Math.max(0, .), and subtracting every known mine
MinesLeftUnclamped(c, ks, km) ==
  c.mines - Cardinality({i \in 1..Len(c.cells) : c.cells[i] \notin ks /\ c.cells[i] \in km})
MinesLeftAllKnown(c, ks, km) == Max2(0, c.mines - Cardinality(km))
MinesLeft(c, ks, km) ==
  LET hits == Cardinality({i \in 1..Len(c.cells) : c.cells[i] \notin ks /\ c.cells[i] \in km})
  IN  Max2(0, c.mines - hits)

\* lines 68-105: the body of the first loop for one constraint. st is the loop
\* state: cs the list as rewritten so far, ks/km the known sets, changed the
\* flag, fs/fm the history of the cells the basic deductions forced.
NarrowStep(c, st) ==
  LET remainingCells == RemainingCells(c, st.ks, st.km)
      minesLeft == MinesLeft(c, st.ks, st.km)
      rem == ToSet(remainingCells)
      st1 == [st EXCEPT !.cs = Append(st.cs, [cells |-> remainingCells, mines |-> minesLeft])]
  IN  IF Len(remainingCells) = 0 THEN st1
      ELSE IF minesLeft = 0 THEN
        [st1 EXCEPT !.ks = st.ks \cup rem,
                    !.changed = st.changed \/ (rem \ st.ks) # {},
                    !.fs = st.fs \cup rem]
      ELSE IF minesLeft = Len(remainingCells) THEN
        [st1 EXCEPT !.km = st.km \cup rem,
                    !.changed = st.changed \/ (rem \ st.km) # {},
                    !.fm = st.fm \cup rem]
      ELSE st1

\* lines 67-106: for (const constraint of constraints)
NarrowAll(st) ==
  ForRange(LAMBDA i, s : NarrowStep(st.cs[i], s), 1, Len(st.cs), [st EXCEPT !.cs = <<>>])

\* lines 153-158
DerivedExists(derived, difference, diffMines) ==
  \E k \in 1..Len(derived) :
    /\ Len(derived[k].cells) = Len(difference)
    /\ derived[k].mines = diffMines
    /\ \A x \in 1..Len(derived[k].cells) : derived[k].cells[x] \in ToSet(difference)

\* lines 121-128: the pair (c1, c2) enters the subset branch
IsStrictSubset(c1, c2) ==
  /\ Len(c2.cells) # 0
  /\ Len(c1.cells) < Len(c2.cells)
  /\ \A x \in 1..Len(c1.cells) : c1.cells[x] \in ToSet(c2.cells)

\* variants of SubsetStep: one that adds a cell of the difference to a set
\* without asking whether the other set holds it, and one with the two immediate
\* deductions exchanged
SubsetStepUnguarded(c1, c2, st) ==
  LET difference == SelectSeq(c2.cells, LAMBDA cell : cell \notin ToSet(c1.cells))
      diffMines == c2.mines - c1.mines
  IN  IF ~(Len(difference) > 0 /\ diffMines >= 0) THEN st
      ELSE IF diffMines = 0 THEN
        [st EXCEPT !.ks = st.ks \cup ToSet(difference),
                   !.changed = st.changed \/ (ToSet(difference) \ st.ks) # {}]
      ELSE IF diffMines = Len(difference) THEN
        [st EXCEPT !.km = st.km \cup ToSet(difference),
                   !.changed = st.changed \/ (ToSet(difference) \ st.km) # {}]
      ELSE IF ~DerivedExists(st.derived, difference, diffMines) THEN
        [st EXCEPT !.derived = Append(st.derived, [cells |-> difference, mines |-> diffMines])]
      ELSE st
SubsetStepSwapped(c1, c2, st) ==
  LET difference == SelectSeq(c2.cells, LAMBDA cell : cell \notin ToSet(c1.cells))
      diffMines == c2.mines - c1.mines
      fresh == (ToSet(difference) \ st.ks) \ st.km
  IN  IF ~(Len(difference) > 0 /\ diffMines >= 0) THEN st
      ELSE IF diffMines = 0 THEN
        [st EXCEPT !.km = st.km \cup fresh, !.changed = st.changed \/ fresh # {}]
      ELSE IF diffMines = Len(difference) THEN
        [st EXCEPT !.ks = st.ks \cup fresh, !.changed = st.changed \/ fresh # {}]
      ELSE IF ~DerivedExists(st.derived, difference, diffMines) THEN
        [st EXCEPT !.derived = Append(st.derived, [cells |-> difference, mines |-> diffMines])]
      ELSE st
\* lines 130-164: the subset branch for the pair (c1, c2)
SubsetStep(c1, c2, st) ==
  LET difference == SelectSeq(c2.cells, LAMBDA cell : cell \notin ToSet(c1.cells))
      diffMines == c2.mines - c1.mines
      fresh == (ToSet(difference) \ st.ks) \ st.km
  IN  IF ~(Len(difference) > 0 /\ diffMines >= 0) THEN st
      ELSE IF diffMines = 0 THEN
        [st EXCEPT !.ks = st.ks \cup fresh, !.changed = st.changed \/ fresh # {}]
      ELSE IF diffMines = Len(difference) THEN
        [st EXCEPT !.km = st.km \cup fresh, !.changed = st.changed \/ fresh # {}]
      ELSE IF ~DerivedExists(st.derived, difference, diffMines) THEN
        [st EXCEPT !.derived = Append(st.derived, [cells |-> difference, mines |-> diffMines])]
      ELSE st

\* lines 118-166: for (j = 0; j < constraints.length; j++). The loop changes no
\* constraint, so the j that enter the subset branch are fixed beforehand; the
\* branch runs for them in ascending order.
SubsetInner(cs, i, st) ==
  LET js == SelectSeq(Indices(Len(cs)), LAMBDA j : j # i /\ IsStrictSubset(cs[i], cs[j]))
  IN  ForRange(LAMBDA k, s : SubsetStep(cs[i], cs[js[k]], s), 1, Len(js), st)

\* a variant of maxConstraintsToCompare that takes the first constraint only
compareFirstOnly(cs) == Min2(Len(cs), 1)
\* line 112
maxConstraintsToCompare(cs) == Min2(Len(cs), compareCap)

\* lines 114-167: for (i = 0; i < maxConstraintsToCompare; i++)
SubsetAll(st) ==
  ForRange(LAMBDA i, s : IF Len(st.cs[i].cells) = 0 THEN s ELSE SubsetInner(st.cs, i, s),
           1, maxConstraintsToCompare(st.cs), [st EXCEPT !.derived = <<>>])

\* lines 169-173
AppendDerived(st) ==
  IF Len(st.derived) > 0
  THEN [st EXCEPT !.cs = st.cs \o st.derived, !.changed = TRUE]
  ELSE st

\* a variant of LoopContinues without the cap on the passes
LoopContinuesUncapped(st) == st.changed
\* line 62
LoopContinues(st) == st.changed /\ st.iterations < maxIterations

\* lines 63-173: one pass of the while loop
PropagatePass(st) ==
  AppendDerived(SubsetAll(NarrowAll(
    [st EXCEPT !.changed = FALSE, !.iterations = st.iterations + 1])))

\* lines 58-59: the loop state on entry
LoopEntry(b) ==
  [cs |-> BuildConstraints(b), ks |-> {}, km |-> {}, changed |-> TRUE, iterations |-> 0,
   derived |-> <<>>, fs |-> {}, fm |-> {}]

\* lines 62-174: the whole loop; at most maxIterations passes can run
Propagate(b) ==
  ForRange(LAMBDA k, s : IF LoopContinues(s) THEN PropagatePass(s) ELSE s,
           1, maxIterations, LoopEntry(b))

\* ----------------------------------------------------- partitionConstraints
\* The distinct cells of a constraint list in order of first appearance: the
\* key order of cellToConstraints (lines 305-313) and of groupCells (202-209).
AppendNew(acc, cells) ==
  ForRange(LAMBDA i, a : IF cells[i] \in ToSet(a) THEN a ELSE Append(a, cells[i]),
           1, Len(cells), acc)
CellOrder(cs) == ForRange(LAMBDA i, acc : AppendNew(acc, cs[i].cells), 1, Len(cs), <<>>)

\* cellToConstraints.get(cell): the indices of the constraints holding the cell
ConstraintIndices(cs, cell) ==
  SelectSeq(Indices(Len(cs)), LAMBDA i : cell \in ToSet(cs[i].cells))

\* lines 318-323: find with path compression. The recursion follows the parent
\* links from x up to the root and, returning, points every node it passed at
\* the root. Climb takes at most hi - lo + 1 links from w.at and stops at the
\* root (a path has fewer links than parent has entries).
RECURSIVE Climb(_, _, _, _)
Climb(parent, lo, hi, w) ==
  IF parent[w.at] = w.at \/ lo > hi THEN w
  ELSE IF lo = hi THEN [at |-> parent[w.at], seen |-> w.seen \cup {w.at}]
  ELSE LET left == Climb(parent, lo, (lo + hi) \div 2, w)
       IN  IF parent[left.at] = left.at THEN left
           ELSE Climb(parent, (lo + hi) \div 2 + 1, hi, left)

\* returns the root and the new parent
Find(parent, x) ==
  LET top == Climb(parent, 1, Len(parent), [at |-> x, seen |-> {}])
  IN  [root |-> top.at,
       parent |-> [i \in 1..Len(parent) |-> IF i \in top.seen THEN top.at ELSE parent[i]]]

\* lines 325-331
Union(parent, x, y) ==
  LET fx == Find(parent, x)
      fy == Find(fx.parent, y)
  IN  IF fx.root # fy.root THEN [fy.parent EXCEPT ![fx.root] = fy.root] ELSE fy.parent

\* a variant of UnionList whose loop starts one index late
UnionListFromThird(parent, idxs) ==
  ForRange(LAMBDA i, p : Union(p, idxs[1], idxs[i]), 3, Len(idxs), parent)
\* lines 335-337: union(constraintIndices[0], constraintIndices[i]) for i >= 1
UnionList(parent, idxs) ==
  ForRange(LAMBDA i, p : Union(p, idxs[1], idxs[i]), 2, Len(idxs), parent)

\* lines 316, 334-338
UnionFind(cs) ==
  LET order == CellOrder(cs)
  IN  ForRange(LAMBDA k, p : UnionList(p, ConstraintIndices(cs, order[k])),
               1, Len(order), Indices(Len(cs)))

\* lines 342-348 for one index: join the group of its root, or open a new one
GroupStep(idx, acc) ==
  LET f == Find(acc.parent, idx)
      at == {g \in 1..Len(acc.roots) : acc.roots[g] = f.root}
  IN  IF at = {}
      THEN [parent |-> f.parent, roots |-> Append(acc.roots, f.root),
            groups |-> Append(acc.groups, <<idx>>)]
      ELSE [acc EXCEPT !.parent = f.parent,
                       !.groups[CHOOSE g \in at : TRUE] = Append(@, idx)]

\* lines 299-351. A group is returned as the list of the positions in cs of its
\* constraints (the constraint objects), groups in order of their first member.
partitionConstraints(cs) ==
  IF Len(cs) = 0 THEN <<>>
  ELSE ForRange(GroupStep, 1, Len(cs),
                [parent |-> UnionFind(cs), roots |-> <<>>, groups |-> <<>>]).groups

\* -------------------------------------------------------- solveConstraints
\* lines 380-387: mask & (1 << i), i counted from 0
BitSet(mask, i) == (mask \div Pow2(i)) % 2 = 1
MinesOfMask(cells, mask) ==
  LET idx == SelectSeq(Indices(Len(cells)), LAMBDA i : BitSet(mask, i - 1))
  IN  [k \in 1..Len(idx) |-> cells[idx[k]]]

\* a variant of Satisfies that accepts too few mines
SatisfiesAtMost(mineSet, cs) ==
  \A k \in 1..Len(cs) :
    Cardinality({x \in 1..Len(cs[k].cells) : cs[k].cells[x] \in mineSet}) <= cs[k].mines
\* lines 389-399
Satisfies(mineSet, cs) ==
  \A k \in 1..Len(cs) :
    Cardinality({x \in 1..Len(cs[k].cells) : cs[k].cells[x] \in mineSet}) = cs[k].mines

\* lines 375-403: the body of the loop over the masks
EnumerateStep(cells, cs, mask, solutions) ==
  IF Len(solutions) >= maxSolutions THEN solutions
  ELSE LET mines == MinesOfMask(cells, mask)
       IN  IF Satisfies(ToSet(mines), cs) THEN Append(solutions, mines) ELSE solutions

\* lines 357-407
solveConstraints(cells, cs) ==
  LET maxCombinations == Pow2(Len(cells))
  IN  IF maxCombinations > combinationCap THEN <<>>
      ELSE ForRange(LAMBDA mask, sols : EnumerateStep(cells, cs, mask, sols),
                    0, maxCombinations - 1, <<>>)

\* lines 374-378: how many masks the loop body is run for, the break at
\* maxSolutions included
ExamineStep(cells, cs, mask, st) ==
  IF Len(st.solutions) >= maxSolutions THEN st
  ELSE [solutions |-> EnumerateStep(cells, cs, mask, st.solutions),
        examined |-> st.examined + 1]
masksExamined(cells, cs) ==
  LET maxCombinations == Pow2(Len(cells))
  IN  IF maxCombinations > combinationCap THEN 0
      ELSE ForRange(LAMBDA mask, st : ExamineStep(cells, cs, mask, st),
                    0, maxCombinations - 1, [solutions |-> <<>>, examined |-> 0]).examined

\* -------------------------------------------- results of calculateProbabilities
\* result[key] = value for every key of keys (later writes win)
Assign(res, keys, value) == [k \in DOMAIN res \cup keys |-> IF k \in keys THEN value ELSE res[k]]
Overwrite(res, new) == [k \in DOMAIN res \cup DOMAIN new |-> IF k \in DOMAIN new THEN new[k] ELSE res[k]]

RECURSIVE SumOver(_, _)
SumOver(S, f) ==
  IF S = {} THEN RZero
  ELSE LET x == CHOOSE y \in S : TRUE
       IN  RAdd(f[x], SumOver(S \ {x}, f))

\* lines 176-182
RecordDefinitive(ks, km) == [k \in ks \cup km |-> IF k \in km THEN ROne ELSE RZero]

\* line 185
activeConstraints(cs) == SelectSeq(cs, LAMBDA c : Len(c.cells) > 0)

\* lines 188-195
frontierCells(active, ks, km) ==
  {key \in UNION {ToSet(active[i].cells) : i \in 1..Len(active)} : key \notin ks /\ key \notin km}

\* lines 215-231: the share of the solutions holding each cell
SolutionShare(cellArray, solutions) ==
  [key \in ToSet(cellArray) |->
     Rat(Cardinality({s \in 1..Len(solutions) : key \in ToSet(solutions[s])}), Len(solutions))]

\* variants of NoSolutionProbability: another value, and a value that is not
\* the same from one call to the next
NoSolutionZero == RZero
NoSolutionByCall == IF calls = 1 THEN RHalf ELSE RZero
\* line 235
NoSolutionProbability == RHalf

\* a variant of Averaged that pools the constraints: all their mines over all
\* their cells
AveragedPooled(group, cellArray, res) ==
  LET touching(key) == {k \in 1..Len(group) : key \in ToSet(group[k].cells)}
      pooled(key) == Rat(SumOver(touching(key), [k \in 1..Len(group) |-> RInt(group[k].mines)])[1],
                         SumOver(touching(key), [k \in 1..Len(group) |-> RInt(Len(group[k].cells))])[1])
  IN  [key \in ToSet(cellArray) \ DOMAIN res |-> Clamp01(pooled(key))]
\* lines 240-256: the averaging fallback for one group
Averaged(group, cellArray, res) ==
  LET touching(key) == {k \in 1..Len(group) : key \in ToSet(group[k].cells)}
      localProb == [k \in 1..Len(group) |-> Rat(group[k].mines, Len(group[k].cells))]
      average(key) == RDivInt(SumOver(touching(key), localProb), Cardinality(touching(key)))
  IN  [key \in ToSet(cellArray) \ DOMAIN res |-> Clamp01(average(key))]

\* lines 202-257: the body of the loop over the groups
SolveGroup(group, res) ==
  LET cellArray == CellOrder(group)
  IN  IF Len(cellArray) > 0 /\ Len(cellArray) <= groupCellCap THEN
        LET solutions == solveConstraints(cellArray, group)
        IN  IF Len(solutions) > 0
            THEN Overwrite(res, SolutionShare(cellArray, solutions))
            ELSE Assign(res, ToSet(cellArray), NoSolutionProbability)
      ELSE IF Len(cellArray) > groupCellCap THEN
        Overwrite(res, Averaged(group, cellArray, res))
      ELSE res

\* the constraints of one group, in the group's order
GroupConstraints(active, idxs) == [k \in 1..Len(idxs) |-> active[idxs[k]]]

\* lines 176-258: the map before the remaining-mine budget is read
SolvedMap(cs, ks, km) ==
  LET active == activeConstraints(cs)
      groups == partitionConstraints(active)
  IN  ForRange(LAMBDA g, res : SolveGroup(GroupConstraints(active, groups[g]), res),
               1, Len(groups), RecordDefinitive(ks, km))

\* a variant of FilledMap that spreads the remainder over every unrevealed cell
FilledMapOverAll(res, cs, ks, km, unrevealed, mr) ==
  LET minesLeftTotal == Max2(0, mr - Cardinality(km))
      frontier == frontierCells(activeConstraints(cs), ks, km)
      valueOrZero == [key \in frontier |-> IF key \in DOMAIN res THEN res[key] ELSE RZero]
      nonFrontierCells == {key \in unrevealed : key \notin frontier /\ key \notin DOMAIN res}
      nonFrontierMines == RMax(RZero, RSub(RInt(minesLeftTotal), SumOver(frontier, valueOrZero)))
  IN  Assign(res, nonFrontierCells, Clamp01(RDivInt(nonFrontierMines, Cardinality(unrevealed))))

\* lines 260-292
FilledMap(res, cs, ks, km, unrevealed, mr) ==
  LET minesLeftTotal == Max2(0, mr - Cardinality(km))
      frontier == frontierCells(activeConstraints(cs), ks, km)
      valueOrZero == [key \in frontier |-> IF key \in DOMAIN res THEN res[key] ELSE RZero]
      expectedFrontierMines == SumOver(frontier, valueOrZero)
      nonFrontierCells == {key \in unrevealed : key \notin frontier /\ key \notin DOMAIN res}
      nonFrontierMines == RMax(RZero, RSub(RInt(minesLeftTotal), expectedFrontierMines))
      nonFrontierProb == RDivInt(nonFrontierMines, Cardinality(nonFrontierCells))
      res1 == IF nonFrontierCells # {}
              THEN Assign(res, nonFrontierCells, Clamp01(nonFrontierProb))
              ELSE res
      baseProbability == IF unrevealed # {}
                         THEN Rat(minesLeftTotal, Cardinality(unrevealed))
                         ELSE RZero
  IN  Assign(res1, unrevealed \ DOMAIN res1, Clamp01(baseProbability))

\* lines 19-293 as one function of its two arguments
calculateProbabilities(b, mr) ==
  LET st == Propagate(b)
  IN  FilledMap(SolvedMap(st.cs, st.ks, st.km), st.cs, st.ks, st.km, UnrevealedOf(b), mr)

\* ------------------------------------------------------ getDefinitiveCells
\* line 424: key.split(',').map(Number). A key is read back character by
\* character: the text before the comma and the text after it, each taken as a
\* decimal number.
Digits == "0123456789"
DigitValue(ch) == (CHOOSE i \in 1..Len(Digits) : SubSeq(Digits, i, i) = ch) - 1
RECURSIVE Number(_)
Number(str) ==
  IF Len(str) = 0 THEN 0
  ELSE 10 * Number(SubSeq(str, 1, Len(str) - 1)) + DigitValue(SubSeq(str, Len(str), Len(str)))
split(key) ==
  LET comma == CHOOSE i \in 1..Len(key) :
                 /\ SubSeq(key, i, i) = ","
                 /\ \A j \in 1..(i - 1) : SubSeq(key, j, j) # ","
  IN  <<SubSeq(key, 1, comma - 1), SubSeq(key, comma + 1, Len(key))>>
Coordinates(key) == [row |-> Number(split(key)[1]), col |-> Number(split(key)[2])]

\* a variant of DefinitiveOf that takes every value up to one half as safe
DefinitiveOfRounded(probabilities) ==
  [safe  |-> {Coordinates(key) : key \in {k \in DOMAIN probabilities : RLe(probabilities[k], RHalf)}},
   mines |-> {Coordinates(key) : key \in {k \in DOMAIN probabilities : probabilities[k] = ROne}}]
\* lines 423-430: the loop over the entries of the map. safe and mines are
\* arrays without repeated coordinates (the keys of a map are distinct); the
\* order of the pushes is left out.
DefinitiveOf(probabilities) ==
  [safe  |-> {Coordinates(key) : key \in {k \in DOMAIN probabilities : probabilities[k] = RZero}},
   mines |-> {Coordinates(key) : key \in {k \in DOMAIN probabilities : probabilities[k] = ROne}}]

\* lines 412-433
getDefinitiveCells(b, mr) == DefinitiveOf(calculateProbabilities(b, mr))

\* ------------------- the version of src/ai/ProbabilityCalculator.ts (no subsets)
\* lines 59-100 there: while (changed), narrowing and basic deductions only.
\* Every pass but the last adds a cell to a known set, so the loop runs at most
\* one pass per cell plus one.
BasicPropagate(b) ==
  ForRange(LAMBDA k, s : IF s.changed
                         THEN NarrowAll([s EXCEPT !.changed = FALSE,
                                                  !.iterations = s.iterations + 1])
                         ELSE s,
           1, b.rows * b.cols + 1, LoopEntry(b))

\* lines 110-133 there: the mean of mines / #cells over the constraints of a cell
BasicAveraged(cs, ks, km, res) ==
  LET active == activeConstraints(cs)
      frontier == frontierCells(active, ks, km)
      touching(key) == {k \in 1..Len(active) : key \in ToSet(active[k].cells)}
      localProb == [k \in 1..Len(active) |-> Rat(active[k].mines, Len(active[k].cells))]
      average(key) == RDivInt(SumOver(touching(key), localProb), Cardinality(touching(key)))
  IN  Overwrite(res, [key \in frontier \ DOMAIN res |-> Clamp01(average(key))])

\* lines 19-168 there
calculateProbabilitiesBasic(b, mr) ==
  LET st == BasicPropagate(b)
  IN  FilledMap(BasicAveraged(st.cs, st.ks, st.km, RecordDefinitive(st.ks, st.km)),
                st.cs, st.ks, st.km, UnrevealedOf(b), mr)

\* ------------------------------------------------------------ the call
NoMap == [k \in {} |-> RZero]

\* GameEngine's constructor and newGame: the gameState of a fresh game
NewGameState(mines) ==
  [status |-> "playing", elapsedTime |-> 0, minesRemaining |-> mines, cellsRevealed |-> 0,
   hasUsedUndo |-> FALSE]

\* What has been observed of a game in which nothing has happened yet.
\* won, lost: the 'game-won' and 'game-lost' events emitted since the last
\* 'new-game' or 'state-restored'; wonUnsound: one of these 'game-won' came
\* while a cell without a mine was hidden or a mine was revealed;
\* undone: Controls.undo has restored a state in this game; savedAfterUndo: the
\* listener of 'game-won' has saved a high score after that; firstClick: the
\* cell of the click that generated the mines, firstClickLost: that click
\* emitted 'game-lost'; last: "move" after a reveal, flag or chord that changed
\* the board, "undone" after the Controls.undo that follows it; before: the
\* cells and counters as they were before that move; chain: 1 after a
\* Controls.undo that restored a snapshot, 2 after a move that follows it and
\* saved one snapshot, 3 after the Controls.undo that follows this move and so
\* restored the same snapshot again.
NothingObserved ==
  [won |-> 0, lost |-> 0, wonUnsound |-> FALSE, undone |-> FALSE, savedAfterUndo |-> FALSE,
   firstClick |-> <<>>, firstClickLost |-> FALSE, last |-> "other", before |-> <<>>,
   chain |-> 0]

\* the loop state held in the variables
LoopState ==
  [cs |-> constraints, ks |-> knownSafe, km |-> knownMines, changed |-> changed,
   iterations |-> iterations, derived |-> <<>>, fs |-> forcedSafe, fm |-> forcedMine]

SetLoopState(st) ==
  /\ constraints' = st.cs
  /\ knownSafe' = st.ks
  /\ knownMines' = st.km
  /\ changed' = st.changed
  /\ iterations' = st.iterations
  /\ forcedSafe' = st.fs
  /\ forcedMine' = st.fm

Init ==
  /\ board \in InputBoards
  /\ pc = "ready"
  /\ minesRemaining = 0
  /\ unrevealedCells = {}
  /\ constraints = <<>>
  /\ extracted = <<>>
  /\ knownSafe = {}
  /\ knownMines = {}
  /\ forcedMine = {}
  /\ forcedSafe = {}
  /\ changed = FALSE
  /\ iterations = 0
  /\ result = NoMap
  /\ safeCells = {}
  /\ mineCells = {}
  /\ calls = 1
  /\ firstResult = NoMap
  /\ idlePasses = 0
  /\ gameState = NewGameState(0)
  /\ stateHistory = <<>>
  /\ learningModeEnabled = FALSE
  /\ rendererProbabilities = NoMap
  /\ observed = NothingObserved
  /\ maxHistorySize = defaultMaxHistorySize
  /\ timerInterval = 0
  /\ shared = {}

\* lines 23-59: scan the board, build the constraints, enter the loop
Extract ==
  /\ pc = "ready"
  /\ unrevealedCells' = UnrevealedOf(board)
  /\ SetLoopState(LoopEntry(board))
  /\ extracted' = BuildConstraints(board)
  /\ idlePasses' = 0
  /\ pc' = "propagating"
  /\ UNCHANGED <<maxHistorySize, timerInterval, shared, observed, gameState, stateHistory, learningModeEnabled, rendererProbabilities,
                 board, minesRemaining, result, safeCells, mineCells, calls, firstResult>>

\* What a pass has found: a cell for a known set, or a derived constraint that
\* differs in its cell set or its mine count from every constraint the list
\* held when it was appended.
FindsNew(st, after) ==
  \/ after.ks # st.ks
  \/ after.km # st.km
  \/ \E k \in (Len(st.cs) + 1)..Len(after.cs) :
       \A i \in 1..Len(st.cs) :
         ~(ToSet(after.cs[i].cells) = ToSet(after.cs[k].cells)
           /\ after.cs[i].mines = after.cs[k].mines)

\* lines 62-174: one pass of the while loop
Pass ==
  /\ pc = "propagating"
  /\ LoopContinues(LoopState)
  /\ SetLoopState(PropagatePass(LoopState))
  /\ idlePasses' = IF FindsNew(LoopState, PropagatePass(LoopState))
                   THEN idlePasses ELSE idlePasses + 1
  /\ UNCHANGED <<maxHistorySize, timerInterval, shared, observed, gameState, stateHistory, learningModeEnabled, rendererProbabilities,
                 board, pc, minesRemaining, unrevealedCells, extracted, result,
                 safeCells, mineCells, calls, firstResult>>

\* lines 176-258: leave the loop, record the certain cells, solve the groups
Solve ==
  /\ pc = "propagating"
  /\ ~LoopContinues(LoopState)
  /\ result' = SolvedMap(constraints, knownSafe, knownMines)
  /\ pc' = "solved"
  /\ UNCHANGED <<maxHistorySize, timerInterval, shared, observed, gameState, stateHistory, learningModeEnabled, rendererProbabilities,
                 board, minesRemaining, unrevealedCells, constraints, extracted, knownSafe,
                 knownMines, forcedMine, forcedSafe, changed, iterations,
                 safeCells, mineCells, calls, firstResult, idlePasses>>

\* lines 260-292: minesRemaining is read here for the first time, so the
\* argument is drawn here (a repeated invocation is given the same one again);
\* then the non-frontier and base fills, and return.
Fill ==
  /\ pc = "solved"
  /\ \E mr \in InputMinesRemaining :
       /\ calls > 1 => mr = minesRemaining
       /\ minesRemaining' = mr
       /\ result' = FilledMap(result, constraints, knownSafe, knownMines, unrevealedCells, mr)
  /\ pc' = "done"
  /\ UNCHANGED <<maxHistorySize, timerInterval, shared, observed, gameState, stateHistory, learningModeEnabled, rendererProbabilities,
                 board, unrevealedCells, constraints, extracted, knownSafe,
                 knownMines, forcedMine, forcedSafe, changed, iterations,
                 safeCells, mineCells, calls, firstResult, idlePasses>>

\* a variant of Definitive that also flags the cells it reports as mines
DefinitiveFlagging ==
  /\ pc = "done"
  /\ safeCells' = DefinitiveOf(result).safe
  /\ mineCells' = DefinitiveOf(result).mines
  /\ pc' = "definitive"
  /\ board' = [board EXCEPT !.cells =
                 [p \in DOMAIN board.cells |->
                    IF [row |-> p[1], col |-> p[2]] \in DefinitiveOf(result).mines
                    THEN [board.cells[p] EXCEPT !.isFlagged = TRUE]
                    ELSE board.cells[p]]]
  /\ UNCHANGED <<maxHistorySize, timerInterval, shared, observed, gameState, stateHistory, learningModeEnabled, rendererProbabilities,
                 minesRemaining, unrevealedCells, constraints, extracted, knownSafe,
                 knownMines, forcedMine, forcedSafe, changed, iterations, result,
                 calls, firstResult, idlePasses>>

\* lines 423-432 of getDefinitiveCells: line 422 has made the call above (the
\* steps from "ready" to "done"); the entries of its map are sorted into safe
\* and mines, and the two lists are returned.
Definitive ==
  /\ pc = "done"
  /\ safeCells' = DefinitiveOf(result).safe
  /\ mineCells' = DefinitiveOf(result).mines
  /\ pc' = "definitive"
  /\ UNCHANGED <<maxHistorySize, timerInterval, shared, observed, gameState, stateHistory, learningModeEnabled, rendererProbabilities,
                 board, minesRemaining, unrevealedCells, constraints, extracted, knownSafe,
                 knownMines, forcedMine, forcedSafe, changed, iterations, result,
                 calls, firstResult, idlePasses>>

\* One call of the src/ai/ProbabilityCalculator.ts version on the same board.
CallBasic ==
  /\ pc = "ready"
  /\ \E mr \in InputMinesRemaining :
       /\ minesRemaining' = mr
       /\ result' = calculateProbabilitiesBasic(board, mr)
  /\ pc' = "doneBasic"
  /\ UNCHANGED <<maxHistorySize, timerInterval, shared, observed, gameState, stateHistory, learningModeEnabled, rendererProbabilities,
                 board, unrevealedCells, constraints, extracted, knownSafe,
                 knownMines, forcedMine, forcedSafe, changed, iterations,
                 safeCells, mineCells, calls, firstResult, idlePasses>>

Next == Extract \/ Pass \/ Solve \/ Fill \/ Definitive \/ CallBasic

Spec == Init /\ [][Next]_vars

\* A second invocation on the same snapshot with the same minesRemaining. The
\* first has returned its map; result is the new call's own object (line 23),
\* and Extract sets up every other local anew.
Reinvoke ==
  /\ pc = "done"
  /\ calls = 1
  /\ calls' = 2
  /\ firstResult' = result
  /\ result' = NoMap
  /\ pc' = "ready"
  /\ UNCHANGED <<maxHistorySize, timerInterval, shared, observed, gameState, stateHistory, learningModeEnabled, rendererProbabilities,
                 board, minesRemaining, unrevealedCells, constraints, extracted, knownSafe,
                 knownMines, forcedMine, forcedSafe, changed, iterations,
                 safeCells, mineCells, idlePasses>>

NextTwice == Next \/ Reinvoke

\* Pairs of invocations on the Rows x Cols boards with a clue in each of the
\* first two cells of the top row: the second clue's cells contain the first's
\* when the cell right of them is revealed too, so subset analysis has work.
InitTwice ==
  /\ Init
  /\ board.rows = Rows
  /\ \A c \in 0..1 : /\ board.cells[<<0, c>>].isRevealed
                      /\ board.cells[<<0, c>>].adjacentMines > 0
SpecTwice == InitTwice /\ [][NextTwice]_vars

\* The same calls on the long board.
InitChain ==
  /\ board \in {ChainBoard(n) : n \in (ChainCols - 1)..ChainCols}
  /\ pc = "ready"
  /\ minesRemaining = 0
  /\ unrevealedCells = {}
  /\ constraints = <<>>
  /\ extracted = <<>>
  /\ knownSafe = {}
  /\ knownMines = {}
  /\ forcedMine = {}
  /\ forcedSafe = {}
  /\ changed = FALSE
  /\ iterations = 0
  /\ result = NoMap
  /\ safeCells = {}
  /\ mineCells = {}
  /\ calls = 1
  /\ firstResult = NoMap
  /\ idlePasses = 0
  /\ gameState = NewGameState(0)
  /\ stateHistory = <<>>
  /\ learningModeEnabled = FALSE
  /\ rendererProbabilities = NoMap
  /\ observed = NothingObserved
  /\ maxHistorySize = defaultMaxHistorySize
  /\ timerInterval = 0
  /\ shared = {}
SpecChain == InitChain /\ [][Next]_vars

\* The same calls on the boards with more than compareCap clues.
InitLadder ==
  /\ board \in {LadderBoard(n, left, right) :
                  n \in (LadderCols - 1)..LadderCols, left \in 1..MaxAdj, right \in 1..MaxAdj}
  /\ pc = "ready"
  /\ minesRemaining = 0
  /\ unrevealedCells = {}
  /\ constraints = <<>>
  /\ extracted = <<>>
  /\ knownSafe = {}
  /\ knownMines = {}
  /\ forcedMine = {}
  /\ forcedSafe = {}
  /\ changed = FALSE
  /\ iterations = 0
  /\ result = NoMap
  /\ safeCells = {}
  /\ mineCells = {}
  /\ calls = 1
  /\ firstResult = NoMap
  /\ idlePasses = 0
  /\ gameState = NewGameState(0)
  /\ stateHistory = <<>>
  /\ learningModeEnabled = FALSE
  /\ rendererProbabilities = NoMap
  /\ observed = NothingObserved
  /\ maxHistorySize = defaultMaxHistorySize
  /\ timerInterval = 0
  /\ shared = {}
SpecLadder == InitLadder /\ [][Next]_vars

\* The same calls on the three-row boards, whose component of hidden cells has
\* more than groupCellCap cells.
InitWide ==
  /\ board \in {WideBoard(WideCols, clues) :
                  clues \in [1..WideVaried -> {1, WideClue, WideBigClue}]}
  /\ pc = "ready"
  /\ minesRemaining = 0
  /\ unrevealedCells = {}
  /\ constraints = <<>>
  /\ extracted = <<>>
  /\ knownSafe = {}
  /\ knownMines = {}
  /\ forcedMine = {}
  /\ forcedSafe = {}
  /\ changed = FALSE
  /\ iterations = 0
  /\ result = NoMap
  /\ safeCells = {}
  /\ mineCells = {}
  /\ calls = 1
  /\ firstResult = NoMap
  /\ idlePasses = 0
  /\ gameState = NewGameState(0)
  /\ stateHistory = <<>>
  /\ learningModeEnabled = FALSE
  /\ rendererProbabilities = NoMap
  /\ observed = NothingObserved
  /\ maxHistorySize = defaultMaxHistorySize
  /\ timerInterval = 0
  /\ shared = {}
SpecWide == InitWide /\ [][Next]_vars

\* The same calls on the boards where three clues meet in one cell.
InitStar ==
  /\ board \in {StarBoard(flagged, base) :
                  flagged \in [StarBlockers -> BOOLEAN], base \in [StarClues -> {1, 2}]}
  /\ pc = "ready"
  /\ minesRemaining = 0
  /\ unrevealedCells = {}
  /\ constraints = <<>>
  /\ extracted = <<>>
  /\ knownSafe = {}
  /\ knownMines = {}
  /\ forcedMine = {}
  /\ forcedSafe = {}
  /\ changed = FALSE
  /\ iterations = 0
  /\ result = NoMap
  /\ safeCells = {}
  /\ mineCells = {}
  /\ calls = 1
  /\ firstResult = NoMap
  /\ idlePasses = 0
  /\ gameState = NewGameState(0)
  /\ stateHistory = <<>>
  /\ learningModeEnabled = FALSE
  /\ rendererProbabilities = NoMap
  /\ observed = NothingObserved
  /\ maxHistorySize = defaultMaxHistorySize
  /\ timerInterval = 0
  /\ shared = {}
SpecStar == InitStar /\ [][Next]_vars

\* ================================================================ the game
\* The application around the calculator: GameEngine with its board and
\* gameState, StateManager's history, the learning-mode switch of Controls and
\* the map the Renderer holds. Every step below is one user operation with
\* everything the listeners of its events do; the listeners run in the order
\* they were registered, Renderer, Controls, then the application's own.
\* timerInterval counts the intervals GameEngine has set and not cleared; the
\* callback of an interval is the step Tick.
App ==
  [board |-> board, gameState |-> gameState, stateHistory |-> stateHistory,
   probabilities |-> rendererProbabilities, observed |-> observed,
   timerInterval |-> timerInterval, shared |-> shared]

SetApp(a) ==
  /\ board' = a.board
  /\ gameState' = a.gameState
  /\ stateHistory' = a.stateHistory
  /\ rendererProbabilities' = a.probabilities
  /\ observed' = a.observed
  /\ timerInterval' = a.timerInterval
  /\ shared' = a.shared
  /\ UNCHANGED maxHistorySize  \* the application never calls setMaxHistorySize

\* MinesweeperBoard's constructor
NewBoard(rows, cols, mines) ==
  [rows |-> rows, cols |-> cols, mines |-> mines, minesGenerated |-> FALSE,
   cells |-> [p \in (0..(rows - 1)) \X (0..(cols - 1)) |-> HiddenCell]]

\* GameEngine.getState: the gameState with the board of this.board
getState(a) == [board |-> a.board] @@ a.gameState

\* a variant of saveState that drops the snapshot just pushed
saveStateDropNewest(history, state) ==
  LET pushed == Append(history, state)
  IN  IF Len(pushed) > maxHistorySize THEN SubSeq(pushed, 1, Len(pushed) - 1) ELSE pushed

\* StateManager.saveState
saveState(history, state) ==
  LET pushed == Append(history, state)
  IN  IF Len(pushed) > maxHistorySize THEN Tail(pushed) ELSE pushed

\* Controls.saveState
ControlsSaveState(a) == [a EXCEPT !.stateHistory = saveState(@, getState(a))]

\* Controls.updateProbabilities; Renderer.setLearningMode(true, map) stores the map
updateProbabilities(a, enabled) ==
  IF ~enabled THEN a
  ELSE IF a.gameState.status # "playing" \/ ~a.board.minesGenerated THEN a
  ELSE [a EXCEPT !.probabilities =
          calculateProbabilitiesBasic(a.board, a.gameState.minesRemaining)]

\* Renderer.renderBoard, as far as the map goes
renderBoard(a) ==
  IF ~a.board.minesGenerated THEN [a EXCEPT !.probabilities = NoMap] ELSE a

\* the listeners of 'cell-revealed'
OnCellRevealed(a, enabled) == ControlsSaveState(updateProbabilities(a, enabled))

\* a variant of OnFlagToggled in which Controls does not listen
OnFlagToggledUnheard(a, enabled) == ControlsSaveState(a)

\* the listeners of 'flag-toggled'
OnFlagToggled(a, enabled) == ControlsSaveState(updateProbabilities(a, enabled))

\* the listeners of 'new-game' and of 'state-restored'
OnNewGame(a, enabled) == updateProbabilities(renderBoard(a), enabled)
OnStateRestored(a, enabled) == updateProbabilities(renderBoard(a), enabled)

\* a variant of getForbiddenCells that keeps only the clicked cell free
getForbiddenCellsClickedOnly(b, row, col) == {<<row, col>>}

\* Board.getForbiddenCells
getForbiddenCells(b, row, col) == {<<row, col>>} \cup ToSet(getNeighbors(b, row, col))

\* The mines MineGenerator.generateMines can place after a first click: the
\* shuffle picks any min(mines, available) of the cells that are not forbidden.
MinePlacements(b, row, col) ==
  LET available == Positions(b) \ getForbiddenCells(b, row, col)
  IN  {chosen \in SUBSET available :
         Cardinality(chosen) = Min2(b.mines, Cardinality(available))}

\* Board.getAdjacentMineCount on a grid of cells
getAdjacentMineCount(b, cells, row, col) ==
  Len(SelectSeq(getNeighbors(b, row, col), LAMBDA n : cells[n].isMine))

\* MineGenerator.generateMines with the shuffle's outcome given
generateMines(b, chosen) ==
  LET mined == [p \in Positions(b) |->
                  IF p \in chosen THEN [b.cells[p] EXCEPT !.isMine = TRUE] ELSE b.cells[p]]
      counted == [p \in Positions(b) |->
                    IF mined[p].isMine THEN mined[p]
                    ELSE [mined[p] EXCEPT
                            !.adjacentMines = getAdjacentMineCount(b, mined, p[1], p[2])]]
  IN  [b EXCEPT !.cells = counted, !.minesGenerated = TRUE]

\* MineGenerator.getEmptyRegion: the flood fill, its Set in insertion order
RECURSIVE RegionFrom(_, _, _, _)
RegionFrom(b, queue, visited, region) ==
  IF queue = <<>> THEN region
  ELSE LET p == Head(queue)
           key == cellKey(p[1], p[2])
           seen == visited \cup {key}
           unvisited == SelectSeq(getNeighbors(b, p[1], p[2]),
                                  LAMBDA n : cellKey(n[1], n[2]) \notin seen)
       IN  IF key \in visited THEN RegionFrom(b, Tail(queue), visited, region)
           ELSE IF b.cells[p].isMine THEN RegionFrom(b, Tail(queue), seen, region)
           ELSE IF b.cells[p].adjacentMines = 0
             THEN RegionFrom(b, Tail(queue) \o unvisited, seen, Append(region, key))
           ELSE RegionFrom(b, Tail(queue), seen, Append(region, key))

getEmptyRegion(b, startRow, startCol) ==
  LET cell == b.cells[<<startRow, startCol>>]
  IN  IF cell.isMine \/ cell.adjacentMines > 0 THEN <<cellKey(startRow, startCol)>>
      ELSE RegionFrom(b, << <<startRow, startCol>> >>, {}, <<>>)

\* GameEngine.revealAllMines; its 'mine-revealed' reaches only Renderer.updateCell
revealAllMines(a) ==
  [a EXCEPT !.board.cells =
     [p \in DOMAIN @ |-> IF @[p].isMine THEN [@[p] EXCEPT !.isRevealed = TRUE] ELSE @[p]]]

\* GameEngine.checkWin
checkWin(a) == a.gameState.cellsRevealed = a.board.rows * a.board.cols - a.board.mines

\* every cell without a mine is revealed and no mine is
CleanlyWon(b) == \A p \in Positions(b) : b.cells[p].isRevealed = ~b.cells[p].isMine

\* the application's listener of 'game-won': the high score is saved when the
\* event's hasUsedUndo is false
OnGameWon(a, hasUsedUndo) ==
  [a EXCEPT !.observed.won = @ + 1,
            !.observed.wonUnsound = @ \/ ~CleanlyWon(a.board),
            !.observed.savedAfterUndo = @ \/ (a.observed.undone /\ ~hasUsedUndo)]

\* the listeners of 'game-lost' change nothing here
OnGameLost(a) == [a EXCEPT !.observed.lost = @ + 1]

\* GameEngine.stopTimer and startTimer: one interval at most is set
stopTimer(a) == IF a.timerInterval # 0 THEN [a EXCEPT !.timerInterval = 0] ELSE a
startTimer(a) == IF a.timerInterval # 0 THEN a ELSE [a EXCEPT !.timerInterval = @ + 1]

\* the callback of the interval, once a second; 'timer-update' reaches only
\* Renderer.updateTimer
tick(a) ==
  IF a.gameState.elapsedTime + 1 > timeCap
    THEN stopTimer([a EXCEPT !.gameState.elapsedTime = timeCap])
    ELSE [a EXCEPT !.gameState.elapsedTime = @ + 1]

\* GameEngine.endGame: it stops the timer and emits 'game-' + status with the
\* gameState's hasUsedUndo; it does not assign gameState.status
endGame(a, status) ==
  IF status = "won" THEN OnGameWon(stopTimer(a), a.gameState.hasUsedUndo)
  ELSE OnGameLost(stopTimer(a))

\* lines 77-80 of reveal
WinChecked(a) == IF checkWin(a) THEN endGame(a, "won") ELSE a

\* GameEngine.reveal
RECURSIVE reveal(_, _, _, _, _)

\* lines 68-74: reveal every other cell of the region, each as part of a cascade
CascadeOver(emptyRegion, heard, enabled, row, col) ==
  LET Cascade(i, s) ==
        IF Coordinates(emptyRegion[i]).row # row \/ Coordinates(emptyRegion[i]).col # col
          THEN reveal(s, enabled, Coordinates(emptyRegion[i]).row,
                      Coordinates(emptyRegion[i]).col, TRUE)
          ELSE s
  IN  ForRange(Cascade, 1, Len(emptyRegion), heard)

\* lines 57-82: what reveal does once the cell is marked and the event heard
AfterEmit(heard, enabled, row, col, cell, fromCascade) ==
  IF cell.isMine THEN revealAllMines(endGame(heard, "lost"))
  ELSE IF cell.adjacentMines = 0 /\ ~fromCascade
    THEN WinChecked(CascadeOver(getEmptyRegion(heard.board, row, col), heard, enabled,
                                row, col))
  ELSE WinChecked(heard)

\* a variant of reveal that does not look at the flag
revealFlagged(a, enabled, row, col, fromCascade) ==
  IF a.board.cells[<<row, col>>].isRevealed THEN a
  ELSE AfterEmit(OnCellRevealed([a EXCEPT !.board.cells[<<row, col>>].isRevealed = TRUE,
                                          !.gameState.cellsRevealed = @ + 1],
                                enabled),
                 enabled, row, col, a.board.cells[<<row, col>>], fromCascade)

reveal(a, enabled, row, col, fromCascade) ==
  IF a.board.cells[<<row, col>>].isRevealed \/ a.board.cells[<<row, col>>].isFlagged THEN a
  ELSE AfterEmit(OnCellRevealed([a EXCEPT !.board.cells[<<row, col>>].isRevealed = TRUE,
                                          !.gameState.cellsRevealed = @ + 1],
                                enabled),
                 enabled, row, col, a.board.cells[<<row, col>>], fromCascade)

\* GameEngine.revealCell past its early returns, the shuffle's outcome given
FirstClickNoted(after, generated) ==
  IF generated THEN after
  ELSE [after EXCEPT !.observed.firstClickLost = after.observed.lost > 0]
revealCell(a, enabled, row, col, chosen) ==
  FirstClickNoted(
    reveal([a EXCEPT !.board = IF @.minesGenerated THEN @ ELSE generateMines(@, chosen),
                     !.timerInterval = IF a.board.minesGenerated THEN @
                                       ELSE startTimer(a).timerInterval,
                     !.observed.firstClick = IF a.board.minesGenerated THEN @
                                             ELSE <<row, col>>],
           enabled, row, col, FALSE),
    a.board.minesGenerated)

\* a variant of toggleFlag whose counter stops at zero
toggleFlagClamped(a, enabled, row, col) ==
  LET flagged == ~a.board.cells[<<row, col>>].isFlagged
  IN  OnFlagToggled([a EXCEPT !.board.cells[<<row, col>>].isFlagged = flagged,
                              !.gameState.minesRemaining =
                                 IF flagged THEN Max2(0, @ - 1) ELSE @ + 1],
                    enabled)

\* GameEngine.toggleFlag past its early returns
toggleFlag(a, enabled, row, col) ==
  LET flagged == ~a.board.cells[<<row, col>>].isFlagged
  IN  OnFlagToggled([a EXCEPT !.board.cells[<<row, col>>].isFlagged = flagged,
                              !.gameState.minesRemaining = @ + (IF flagged THEN -1 ELSE 1)],
                    enabled)

\* GameEngine.chord: flaggedCount of the clue's neighbours
flaggedCount(b, row, col) ==
  Len(SelectSeq(getNeighbors(b, row, col), LAMBDA n : b.cells[n].isFlagged))

\* GameEngine.chord past its early returns
chord(a, enabled, row, col) ==
  LET neighbors == getNeighbors(a.board, row, col)
      Each(i, s) ==
        LET n == neighbors[i]
        IN  IF ~s.board.cells[n].isRevealed /\ ~s.board.cells[n].isFlagged
              THEN reveal(s, enabled, n[1], n[2], FALSE)
              ELSE s
  IN  ForRange(Each, 1, Len(neighbors), a)

\* a variant of restoreState that keeps the objects of the snapshot it is
\* given, the newest of the history, instead of copies of them
restoreStateShared(a, enabled, state) ==
  OnStateRestored([a EXCEPT !.gameState = [f \in DOMAIN @ |-> state[f]],
                            !.board = state.board,
                            !.shared = {Len(a.stateHistory)},
                            !.observed.won = 0,
                            !.observed.lost = 0,
                            !.observed.wonUnsound = FALSE,
                            !.observed.firstClick = IF state.board.minesGenerated THEN @
                                                    ELSE <<>>],
                  enabled)

\* GameEngine.restoreState; its JSON round trips copy a state of booleans,
\* integers and strings as it is, and the engine holds the copies only
restoreState(a, enabled, state) ==
  OnStateRestored([a EXCEPT !.gameState = [f \in DOMAIN @ |-> state[f]],
                            !.board = state.board,
                            !.shared = {},
                            !.observed.won = 0,
                            !.observed.lost = 0,
                            !.observed.wonUnsound = FALSE,
                            !.observed.firstClick = IF state.board.minesGenerated THEN @
                                                    ELSE <<>>],
                  enabled)

\* What the engine writes reaches every snapshot whose objects it holds.
Through(a) ==
  IF a.shared = {} THEN a
  ELSE [a EXCEPT !.stateHistory =
          [i \in DOMAIN @ |-> IF i \in a.shared THEN getState(a) ELSE @[i]]]

\* Controls.undo: StateManager.undo gives nothing with fewer than two
\* snapshots, and then nothing is done. Line 205 sets hasUsedUndo on the copy
\* getState returns, so the engine's own gameState keeps its value.
undo(a, enabled) ==
  LET popped == SubSeq(a.stateHistory, 1, Len(a.stateHistory) - 1)
  IN  IF Len(a.stateHistory) < 2 THEN a
      ELSE renderBoard(restoreState([a EXCEPT !.stateHistory = popped,
                                              !.observed.undone = TRUE],
                                    enabled, popped[Len(popped)]))

\* Controls.newGame: clear the history, GameEngine.newGame, render, seed the history
newGame(a, enabled, config) ==
  ControlsSaveState(renderBoard(OnNewGame(
    [a EXCEPT !.stateHistory = <<>>,
              !.board = NewBoard(config.rows, config.cols, config.mines),
              !.gameState = NewGameState(config.mines),
              !.timerInterval = 0,
              !.shared = {},
              !.observed = NothingObserved],
    enabled)))

\* Controls.toggleLearningMode
toggleLearningMode(a, enabled) ==
  IF enabled THEN updateProbabilities(a, enabled)
  ELSE [a EXCEPT !.probabilities = NoMap]

GameConfigs == {[rows |-> GameRows, cols |-> GameCols, mines |-> m] : m \in 1..GameMines}

\* The application as its constructor leaves it with no saved game to resume:
\* a fresh engine, an empty history, the learning mode the settings hold.
InitGame ==
  /\ \E config \in GameConfigs :
       /\ board = NewBoard(config.rows, config.cols, config.mines)
       /\ gameState = NewGameState(config.mines)
  /\ stateHistory = <<>>
  /\ learningModeEnabled \in BOOLEAN
  /\ rendererProbabilities = NoMap
  /\ observed = NothingObserved
  /\ maxHistorySize = defaultMaxHistorySize
  /\ timerInterval = 0
  /\ shared = {}
  /\ pc = "ready"
  /\ minesRemaining = 0
  /\ unrevealedCells = {}
  /\ constraints = <<>>
  /\ extracted = <<>>
  /\ knownSafe = {}
  /\ knownMines = {}
  /\ forcedMine = {}
  /\ forcedSafe = {}
  /\ changed = FALSE
  /\ iterations = 0
  /\ result = NoMap
  /\ safeCells = {}
  /\ mineCells = {}
  /\ calls = 1
  /\ firstResult = NoMap
  /\ idlePasses = 0

\* the cells and the counters a move changes
Snapshot(a) ==
  [cells |-> a.board.cells, cellsRevealed |-> a.gameState.cellsRevealed,
   minesRemaining |-> a.gameState.minesRemaining]

\* the history of a reveal, flag or chord: what was there before it
MoveNoted(after, was) ==
  IF Snapshot(after) # was
    THEN [after EXCEPT !.observed.last = "move", !.observed.before = was,
                       !.observed.chain =
                         IF @ = 1 /\ Len(after.stateHistory) = Len(stateHistory) + 1
                           THEN 2 ELSE 0]
    ELSE [after EXCEPT !.observed.last = "other", !.observed.before = <<>>,
                       !.observed.chain = 0]

\* the history of a Controls.undo: whether it follows a move
UndoNoted(after, last) ==
  LET chained == [after EXCEPT !.observed.chain =
                    IF Len(after.stateHistory) = Len(stateHistory) THEN 0
                    ELSE IF @ = 2 THEN 3 ELSE 1]
  IN  IF last = "move" THEN [chained EXCEPT !.observed.last = "undone"]
      ELSE [chained EXCEPT !.observed.last = "other", !.observed.before = <<>>]

calculatorVars ==
  <<pc, minesRemaining, unrevealedCells, constraints, extracted, knownSafe, knownMines,
    forcedMine, forcedSafe, changed, iterations, result, safeCells, mineCells, calls,
    firstResult, idlePasses>>

\* a click on a hidden cell, while the history holds fewer than limit snapshots
RevealCellWithin(limit) ==
  /\ Len(stateHistory) < limit
  /\ gameState.status = "playing"
  /\ \E p \in Positions(board) :
       /\ ~board.cells[p].isRevealed
       /\ ~board.cells[p].isFlagged
       /\ \E chosen \in (IF board.minesGenerated THEN {{}}
                          ELSE MinePlacements(board, p[1], p[2])) :
            SetApp(MoveNoted(Through(revealCell(App, learningModeEnabled, p[1], p[2], chosen)),
                             Snapshot(App)))
  /\ UNCHANGED learningModeEnabled
  /\ UNCHANGED calculatorVars

RevealCell == RevealCellWithin(MaxHistory)

\* a right click on a cell that is not revealed, under the same limit
ToggleFlagWithin(limit) ==
  /\ Len(stateHistory) < limit
  /\ gameState.status = "playing"
  /\ \E p \in Positions(board) :
       /\ ~board.cells[p].isRevealed
       /\ SetApp(MoveNoted(Through(toggleFlag(App, learningModeEnabled, p[1], p[2])), Snapshot(App)))
  /\ UNCHANGED learningModeEnabled
  /\ UNCHANGED calculatorVars

ToggleFlag == ToggleFlagWithin(MaxHistory)

\* a double click on a clue with as many flags around it as it counts
Chord ==
  /\ gameState.status = "playing"
  /\ \E p \in Positions(board) :
       /\ board.cells[p].isRevealed
       /\ board.cells[p].adjacentMines # 0
       /\ flaggedCount(board, p[1], p[2]) = board.cells[p].adjacentMines
       /\ SetApp(MoveNoted(Through(chord(App, learningModeEnabled, p[1], p[2])), Snapshot(App)))
  /\ UNCHANGED learningModeEnabled
  /\ UNCHANGED calculatorVars

\* a call of Controls.undo
Undo ==
  /\ SetApp(UndoNoted(undo(App, learningModeEnabled), observed.last))
  /\ UNCHANGED learningModeEnabled
  /\ UNCHANGED calculatorVars

\* the smiley or the restart button, after any choice of difficulty
NewGame ==
  /\ \E config \in GameConfigs : SetApp(newGame(App, learningModeEnabled, config))
  /\ UNCHANGED learningModeEnabled
  /\ UNCHANGED calculatorVars

\* the learning-mode checkbox
ToggleLearningMode ==
  /\ learningModeEnabled' = ~learningModeEnabled
  /\ SetApp(toggleLearningMode(App, ~learningModeEnabled))
  /\ UNCHANGED calculatorVars

NextGame == RevealCell \/ ToggleFlag \/ Chord \/ Undo \/ NewGame \/ ToggleLearningMode

SpecGame == InitGame /\ [][NextGame]_vars

\* The game with the learning mode left off: longer games, no calculator.
InitPlay == InitGame /\ ~learningModeEnabled
PlayReveal == RevealCellWithin(MaxPlayHistory)
PlayFlag == ToggleFlagWithin(MaxFlagHistory)
NextPlay == PlayReveal \/ PlayFlag \/ Chord \/ Undo \/ NewGame
SpecPlay == InitPlay /\ [][NextPlay]_vars

\* ------------------------------------------------- a session with its timer
\* the application's constructor before it tries to resume a saved game
FreshApp(config) ==
  [board |-> NewBoard(config.rows, config.cols, config.mines),
   gameState |-> NewGameState(config.mines), stateHistory |-> <<>>,
   probabilities |-> NoMap, observed |-> NothingObserved, timerInterval |-> 0,
   shared |-> {}]

\* The games LocalStorageManager.loadCurrentGame can return among the ones the
\* listener of 'cell-revealed' stored: the state SavedElapsed seconds after a
\* first click in the corner, the mines anywhere the shuffle can put them.
SavedGames ==
  {[getState(revealCell(FreshApp(config), FALSE, 0, 0, chosen))
      EXCEPT !.elapsedTime = SavedElapsed] :
     config \in {c \in GameConfigs : c.mines = 1},
     chosen \in MinePlacements(NewBoard(GameRows, GameCols, 1), 0, 0)}

\* Controls.resumeGame with a saved game that is not too old
resumeGame(a, enabled, saved) ==
  [renderBoard(restoreState(a, enabled, saved))
     EXCEPT !.stateHistory = saveState(<<>>, saved), !.shared = {}]

\* the application as its constructor leaves it: fresh, or with a game resumed
SessionStarts ==
  {FreshApp(config) : config \in GameConfigs}
    \cup {resumeGame(FreshApp(config), FALSE, saved) :
            config \in GameConfigs, saved \in SavedGames}

InitSession ==
  /\ maxHistorySize = defaultMaxHistorySize
  /\ \E start \in SessionStarts :
       /\ board = start.board
       /\ gameState = start.gameState
       /\ stateHistory = start.stateHistory
       /\ rendererProbabilities = start.probabilities
       /\ observed = start.observed
       /\ timerInterval = start.timerInterval
       /\ shared = start.shared
  /\ learningModeEnabled = FALSE
  /\ pc = "ready"
  /\ minesRemaining = 0
  /\ unrevealedCells = {}
  /\ constraints = <<>>
  /\ extracted = <<>>
  /\ knownSafe = {}
  /\ knownMines = {}
  /\ forcedMine = {}
  /\ forcedSafe = {}
  /\ changed = FALSE
  /\ iterations = 0
  /\ result = NoMap
  /\ safeCells = {}
  /\ mineCells = {}
  /\ calls = 1
  /\ firstResult = NoMap
  /\ idlePasses = 0

\* a second passes while the interval is set
Tick ==
  /\ timerInterval # 0
  /\ gameState.elapsedTime < MaxElapsed
  /\ SetApp(Through(tick(App)))
  /\ UNCHANGED learningModeEnabled
  /\ UNCHANGED calculatorVars

SessionReveal == RevealCellWithin(MaxSessionHistory)
SessionFlag == ToggleFlagWithin(MaxSessionFlagHistory)
NextSession == SessionReveal \/ SessionFlag \/ Chord \/ Undo \/ NewGame \/ Tick
SpecSession == InitSession /\ [][NextSession]_vars

\* One game without undo or restart: reveals, flags and chords only.
MovesReveal == RevealCellWithin(MaxMovesHistory)
MovesFlag == ToggleFlagWithin(MaxMovesFlagHistory)
NextMoves == MovesReveal \/ MovesFlag \/ Chord
SpecMoves == InitPlay /\ [][NextMoves]_vars

\* isValidConfig of config/difficulties
isValidConfig(config) ==
  /\ config.rows >= 5
  /\ config.rows <= 50
  /\ config.cols >= 5
  /\ config.cols <= 50
  /\ config.mines > 0
  /\ config.mines < config.rows * config.cols

\* the custom games Controls accepts among the ones tried
CustomConfigs ==
  {config \in [rows : {CustomRows - 1, CustomRows}, cols : {CustomCols},
               mines : {0, CustomMines, CustomRows * CustomCols - 1,
                        CustomRows * CustomCols}] :
     isValidConfig(config)}

\* A custom game and its first click, the learning mode off.
InitCustom ==
  /\ \E config \in CustomConfigs :
       /\ board = NewBoard(config.rows, config.cols, config.mines)
       /\ gameState = NewGameState(config.mines)
  /\ stateHistory = <<>>
  /\ learningModeEnabled = FALSE
  /\ rendererProbabilities = NoMap
  /\ observed = NothingObserved
  /\ maxHistorySize = defaultMaxHistorySize
  /\ timerInterval = 0
  /\ shared = {}
  /\ pc = "ready"
  /\ minesRemaining = 0
  /\ unrevealedCells = {}
  /\ constraints = <<>>
  /\ extracted = <<>>
  /\ knownSafe = {}
  /\ knownMines = {}
  /\ forcedMine = {}
  /\ forcedSafe = {}
  /\ changed = FALSE
  /\ iterations = 0
  /\ result = NoMap
  /\ safeCells = {}
  /\ mineCells = {}
  /\ calls = 1
  /\ firstResult = NoMap
  /\ idlePasses = 0
CustomFirstClick == RevealCellWithin(1)
CustomNewGame ==
  /\ \E config \in CustomConfigs : SetApp(newGame(App, learningModeEnabled, config))
  /\ UNCHANGED learningModeEnabled
  /\ UNCHANGED calculatorVars
NextCustom == CustomFirstClick \/ CustomNewGame
SpecCustom == InitCustom /\ [][NextCustom]_vars

\* ------------------------------------------------------ StateManager alone
\* null, and a value that may be null: <<>> or <<value>>
Null == <<>>

\* StateManager.canUndo, getCurrentState, getHistorySize
canUndo(history) == Len(history) >= 2
getCurrentState(history) == IF Len(history) = 0 THEN Null ELSE <<history[Len(history)]>>
getHistorySize(history) == Len(history)

\* a variant of stateManagerUndo that returns the snapshot it removed
stateManagerUndoRemoved(history) ==
  IF Len(history) < 2 THEN [history |-> history, returned |-> Null]
  ELSE [history |-> SubSeq(history, 1, Len(history) - 1),
        returned |-> <<history[Len(history)]>>]

\* StateManager.undo: the history it leaves and what it returns
stateManagerUndo(history) ==
  IF Len(history) < 2 THEN [history |-> history, returned |-> Null]
  ELSE [history |-> SubSeq(history, 1, Len(history) - 1),
        returned |-> <<history[Len(history) - 1]>>]

\* StateManager.setMaxHistorySize: the maximum it sets and the history it leaves
RECURSIVE Shifted(_, _)
Shifted(history, max) == IF Len(history) > max THEN Shifted(Tail(history), max) ELSE history
setMaxHistorySize(history, size) ==
  [max |-> Max2(1, size), history |-> Shifted(history, Max2(1, size))]

\* the snapshots given to saveState: states of fresh games, told apart by their mines
ManagerSnapshots == {NewGameState(m) : m \in 1..ManagerStates}

\* the history of a call on the StateManager: its name, its argument, the
\* history before it and what it returned
NoCall == [last |-> "none", given |-> Null, before |-> <<>>, returned |-> Null]
Called(name, given, returned) ==
  [last |-> name, given |-> given, before |-> stateHistory, returned |-> returned]

managerFrame ==
  <<board, gameState, learningModeEnabled, rendererProbabilities, timerInterval, shared>>

InitManager ==
  /\ board = NewBoard(GameRows, GameCols, 1)
  /\ gameState = NewGameState(1)
  /\ stateHistory = <<>>
  /\ learningModeEnabled = FALSE
  /\ rendererProbabilities = NoMap
  /\ observed = NoCall
  /\ maxHistorySize = defaultMaxHistorySize
  /\ timerInterval = 0
  /\ shared = {}
  /\ pc = "ready"
  /\ minesRemaining = 0
  /\ unrevealedCells = {}
  /\ constraints = <<>>
  /\ extracted = <<>>
  /\ knownSafe = {}
  /\ knownMines = {}
  /\ forcedMine = {}
  /\ forcedSafe = {}
  /\ changed = FALSE
  /\ iterations = 0
  /\ result = NoMap
  /\ safeCells = {}
  /\ mineCells = {}
  /\ calls = 1
  /\ firstResult = NoMap
  /\ idlePasses = 0

SaveState ==
  /\ Len(stateHistory) < MaxSaved \/ Len(stateHistory) >= maxHistorySize
  /\ \E state \in ManagerSnapshots :
       /\ stateHistory' = saveState(stateHistory, state)
       /\ observed' = Called("saveState", <<state>>, Null)
  /\ UNCHANGED <<maxHistorySize, managerFrame, calculatorVars>>

ManagerUndo ==
  /\ stateHistory' = stateManagerUndo(stateHistory).history
  /\ observed' = Called("undo", Null, stateManagerUndo(stateHistory).returned)
  /\ UNCHANGED <<maxHistorySize, managerFrame, calculatorVars>>

Clear ==
  /\ stateHistory' = <<>>
  /\ observed' = Called("clear", Null, Null)
  /\ UNCHANGED <<maxHistorySize, managerFrame, calculatorVars>>

SetMaxHistorySize ==
  /\ \E size \in (0 - 1)..MaxSize :
       /\ maxHistorySize' = setMaxHistorySize(stateHistory, size).max
       /\ stateHistory' = setMaxHistorySize(stateHistory, size).history
       /\ observed' = Called("setMaxHistorySize", <<size>>, Null)
  /\ UNCHANGED <<managerFrame, calculatorVars>>

NextManager == SaveState \/ ManagerUndo \/ Clear \/ SetMaxHistorySize
SpecManager == InitManager /\ [][NextManager]_vars

\* =================================================================== claims
\* What the claims speak of, stated from the board alone.
Adjacent(p, q) ==
  /\ p # q
  /\ p[1] - q[1] \in {-1, 0, 1}
  /\ p[2] - q[2] \in {-1, 0, 1}
KeyOf(p) == cellKey(p[1], p[2])
Cells == board.cells
UnknownPositions == {p \in DOMAIN Cells : ~Cells[p].isRevealed /\ ~Cells[p].isFlagged}
UnknownNeighbours(p) == {q \in UnknownPositions : Adjacent(p, q)}
FlaggedNeighbours(p) == {q \in DOMAIN Cells : Adjacent(p, q) /\ Cells[q].isFlagged}
Returned == pc = "done"
InUnit(x) == RLe(RZero, x) /\ RLe(x, ROne)

\* C1: the returned map has an entry for exactly the unrevealed, unflagged cells.
C1_Completeness ==
  Returned => DOMAIN result = {KeyOf(p) : p \in UnknownPositions}

C1_Witness ==
  /\ Returned
  /\ \E p \in DOMAIN Cells : Cells[p].isFlagged
  /\ \E p \in DOMAIN Cells : Cells[p].isRevealed /\ Cells[p].adjacentMines > 0
  /\ knownMines # {}
  /\ \E p \in UnknownPositions : KeyOf(p) \notin knownMines \cup knownSafe

\* C2: every returned probability lies in [0, 1], whatever the clues and
\* whatever minesRemaining (negative included), in both versions.
C2_Clamping ==
  pc \in {"done", "doneBasic"} => \A k \in DOMAIN result : InUnit(result[k])

\* an inconsistent clue (more mines asked than cells) and a negative budget
C2_Witness ==
  /\ Returned
  /\ minesRemaining < 0
  /\ \E i \in 1..Len(extracted) : extracted[i].mines > Len(extracted[i].cells)
  /\ \E k \in DOMAIN result : result[k] = RHalf

\* C3: a cell of a narrowed constraint with mines = #cells is returned with
\* probability exactly 1; a cell of a narrowed non-empty constraint with
\* mines = 0 is returned with probability exactly 0.
C3_CertaintySoundness ==
  Returned =>
    /\ \A k \in forcedMine : k \in DOMAIN result /\ result[k] = ROne
    /\ \A k \in forcedSafe : k \in DOMAIN result /\ result[k] = RZero

\* All assignments of mines to the cells of a constraint list that satisfy it:
\* what the clues allow. The clues are consistent when there is one.
CellsOf(cs) == UNION {ToSet(cs[i].cells) : i \in 1..Len(cs)}
MinesIn(M, c) == Cardinality(M \cap ToSet(c.cells))
Models(cs) == {M \in SUBSET CellsOf(cs) : \A i \in 1..Len(cs) : MinesIn(M, cs[i]) = cs[i].mines}
Consistent == Models(extracted) # {}

\* The pairs (A, B) of extracted constraints with cells(A) strictly inside
\* cells(B) and A.mines <= B.mines, and what the difference must then hold.
SubsetPairs ==
  {ij \in (1..Len(extracted)) \X (1..Len(extracted)) :
     /\ ToSet(extracted[ij[1]].cells) \subseteq ToSet(extracted[ij[2]].cells)
     /\ ToSet(extracted[ij[1]].cells) # ToSet(extracted[ij[2]].cells)
     /\ extracted[ij[1]].mines <= extracted[ij[2]].mines}
DiffCells(ij) == ToSet(extracted[ij[2]].cells) \ ToSet(extracted[ij[1]].cells)
DiffMines(ij) == extracted[ij[2]].mines - extracted[ij[1]].mines
DiffResolved(ij) ==
  /\ DiffMines(ij) = 0 => \A k \in DiffCells(ij) : result[k] = RZero
  /\ DiffMines(ij) = Cardinality(DiffCells(ij)) => \A k \in DiffCells(ij) : result[k] = ROne

\* C4 as written: for every such pair the cells of the difference are returned
\* with 0 when the mine counts are equal and with 1 when they differ by the
\* size of the difference.
C4_SubsetSoundnessAsWritten ==
  Returned => \A ij \in SubsetPairs : DiffResolved(ij)

\* C4: the same, for consistent clues and A among the first compareCap
\* constraints, the ones the subset analysis takes as the smaller constraint.
C4_SubsetSoundness ==
  Returned /\ Consistent =>
    \A ij \in SubsetPairs : ij[1] <= compareCap => DiffResolved(ij)

\* consistent clues with a difference of each kind, the safe one forced by no
\* constraint alone
C4_Witness ==
  /\ Returned
  /\ Consistent
  /\ \E ij \in SubsetPairs :
       DiffMines(ij) = 0 /\ DiffCells(ij) \cap forcedSafe = {}
  /\ \E ij \in SubsetPairs : DiffMines(ij) = Cardinality(DiffCells(ij))


\* The components of a constraint list, from the definition: two constraints
\* are linked when they share a cell, and a component is a class of the closure
\* of that relation. Components are sets of positions in the list.
Shares(cs, i, j) == ToSet(cs[i].cells) \cap ToSet(cs[j].cells) # {}
RECURSIVE Reach(_, _)
Reach(cs, S) ==
  LET T == S \cup {j \in 1..Len(cs) : \E i \in S : Shares(cs, i, j)}
  IN  IF T = S THEN S ELSE Reach(cs, T)
Components(cs) == {Reach(cs, {i}) : i \in 1..Len(cs)}
ComponentCells(cs, comp) == UNION {ToSet(cs[i].cells) : i \in comp}
\* the assignments of mines to the cells of a component that every constraint
\* of the component accepts
Accepted(cs, comp) ==
  {M \in SUBSET ComponentCells(cs, comp) : \A i \in comp : MinesIn(M, cs[i]) = cs[i].mines}
Solved == pc \in {"solved", "done"}
Active == activeConstraints(constraints)

\* C5: a component of at most groupCellCap cells with at least one accepted
\* assignment, and fewer than maxSolutions of them, gives each of its cells
\* the share of the accepted assignments in which the cell is a mine.
C5_ExactShare ==
  Solved =>
    \A comp \in Components(Active) :
      LET cells == ComponentCells(Active, comp)
          accepted == Accepted(Active, comp)
      IN  Cardinality(cells) <= groupCellCap /\ accepted # {}
            /\ Cardinality(accepted) < maxSolutions
          => \A k \in cells :
               /\ k \in DOMAIN result
               /\ result[k] = Rat(Cardinality({M \in accepted : k \in M}),
                                  Cardinality(accepted))

\* a component of two constraints with three accepted assignments, and a cell
\* that is a mine in one of them
C5_Witness ==
  /\ Solved
  /\ \E comp \in Components(Active) :
       /\ Cardinality(comp) >= 2
       /\ Cardinality(Accepted(Active, comp)) = 3
       /\ \E k \in ComponentCells(Active, comp) : result[k] = Rat(1, 3)

\* C6: the call ends with a map, and a component of at most groupCellCap cells
\* that no assignment satisfies gives every one of its cells exactly 1/2.
C6_NoSolutionFallback ==
  Solved =>
    \A comp \in Components(Active) :
      LET cells == ComponentCells(Active, comp)
      IN  Cardinality(cells) <= groupCellCap /\ Accepted(Active, comp) = {}
          => \A k \in cells : k \in DOMAIN result /\ result[k] = RHalf

\* a constraint that asks for more mines than it has cells, next to a component
\* that is solved
C6_Witness ==
  /\ Returned
  /\ \E i \in 1..Len(Active) :
       /\ Active[i].mines > Len(Active[i].cells)
       /\ \A k \in ToSet(Active[i].cells) : result[k] = RHalf
  /\ \E comp \in Components(Active) : Accepted(Active, comp) # {}

\* The constraint list as a pass of the loop leaves it.
AfterPass == iterations >= 1 /\ pc \in {"propagating", "solved", "done"}

Remainder(p) == Cells[p].adjacentMines - Cardinality(FlaggedNeighbours(p))
GivesConstraint(p) ==
  /\ Cells[p].isRevealed
  /\ Cells[p].adjacentMines > 0
  /\ UnknownNeighbours(p) # {}
  /\ Remainder(p) >= 0
Givers == SelectSeq(ScanOrder(board), GivesConstraint)
Extracted == pc \in {"propagating", "solved", "done"}

\* C8: extraction gives one constraint for each revealed cell with a positive
\* clue, an unknown neighbour and a remainder (clue minus flagged neighbours)
\* that is not negative, and none for any other cell; its cells are the cell's
\* unknown neighbours, each once, and its mines is the remainder.
C8_Extraction ==
  Extracted =>
    /\ Len(extracted) = Len(Givers)
    /\ \A i \in 1..Len(extracted) :
         /\ ToSet(extracted[i].cells) = {KeyOf(q) : q \in UnknownNeighbours(Givers[i])}
         /\ Len(extracted[i].cells) = Cardinality(UnknownNeighbours(Givers[i]))
         /\ extracted[i].mines = Remainder(Givers[i])

\* a board with a constraint of remainder 0 under a flag, a clue whose
\* remainder is negative and a clue with no unknown neighbour
C8_Witness ==
  /\ Extracted
  /\ \E i \in 1..Len(extracted) :
       extracted[i].mines = 0 /\ FlaggedNeighbours(Givers[i]) # {}
  /\ \E p \in DOMAIN Cells :
       Cells[p].isRevealed /\ UnknownNeighbours(p) # {} /\ Remainder(p) < 0
  /\ \E p \in DOMAIN Cells :
       Cells[p].isRevealed /\ Cells[p].adjacentMines > 0 /\ UnknownNeighbours(p) = {}

\* The groups partitionConstraints returns are the components of its input.
ExactPartition(cs) ==
  LET groups == partitionConstraints(cs)
  IN  /\ \A i \in 1..Len(cs) :
           Cardinality({g \in 1..Len(groups) : i \in ToSet(groups[g])}) = 1
      /\ \A g \in 1..Len(groups) :
           /\ Len(groups[g]) = Cardinality(ToSet(groups[g]))
           /\ ToSet(groups[g]) \in Components(cs)

\* C9: partitionConstraints puts every constraint in exactly one group, and the
\* groups are the connected components of the relation of sharing a cell, on
\* the list the call partitions and on the list as extracted.
C9_Partition ==
  pc = "solved" => ExactPartition(Active) /\ ExactPartition(extracted)

\* two constraints that share a cell, beside another group
C9_Witness ==
  /\ pc = "solved"
  /\ Len(partitionConstraints(Active)) >= 2
  /\ \E i, j \in 1..Len(Active) : i # j /\ Shares(Active, i, j)

\* Two boards that differ only in the values of some clues, the cells of S, both
\* give the same board when every clue of S is set to 1. So a map entry is the
\* same on every two such boards exactly when it is, on every board, the entry
\* of the board with the clues of S set to 1.
ClueAt(b, p) == b.cells[p].isRevealed /\ b.cells[p].adjacentMines > 0
UnknownAround(b, p) == {q \in Positions(b) : IsUnknown(b, q) /\ Adjacent(p, q)}
ShareClue(b, x, y) == \E c \in Positions(b) : ClueAt(b, c) /\ Adjacent(c, x) /\ Adjacent(c, y)
WithCluesAtOne(b, S) ==
  [b EXCEPT !.cells = [p \in DOMAIN b.cells |->
                         IF p \in S THEN [b.cells[p] EXCEPT !.adjacentMines = 1]
                         ELSE b.cells[p]]]
\* a frontier cell: unrevealed, unflagged, next to a revealed clue
FrontierCell(b, x) == IsUnknown(b, x) /\ \E c \in Positions(b) : ClueAt(b, c) /\ Adjacent(c, x)

\* The clues that may change beside the cluster {x}: x is no neighbour of theirs
\* and shares no clue with an unknown neighbour of theirs. A larger cluster
\* allows fewer clues, so the claim for one-cell clusters is the whole claim.
FreeCluesAsWritten(b, x) ==
  {c \in Positions(b) :
     /\ ClueAt(b, c)
     /\ ~Adjacent(c, x)
     /\ \A y \in UnknownAround(b, c) : ~ShareClue(b, x, y)}

\* C10 as written: the probability of a frontier cell is the same on two boards
\* that differ only in clues whose unknown neighbours share no clue with it.
C10_IndependenceAsWritten ==
  Returned =>
    \A x \in UnknownPositions :
      LET other == WithCluesAtOne(board, FreeCluesAsWritten(board, x))
      IN  FrontierCell(board, x) /\ other # board
          => result[KeyOf(x)] = calculateProbabilities(other, minesRemaining)[KeyOf(x)]

\* The cluster of x: the unknown cells linked to x by a chain of cells in which
\* consecutive cells share a clue. Every cluster closed under sharing a clue
\* that holds x contains it.
RECURSIVE ClusterFrom(_, _)
ClusterFrom(b, S) ==
  LET T == S \cup {y \in Positions(b) : IsUnknown(b, y) /\ \E x \in S : ShareClue(b, x, y)}
  IN  IF T = S THEN S ELSE ClusterFrom(b, T)
Cluster(b, x) == ClusterFrom(b, {x})
FreeClues(b, x) ==
  {c \in Positions(b) : ClueAt(b, c) /\ UnknownAround(b, c) \cap Cluster(b, x) = {}}

\* C10: the probability of a cell of an extracted constraint is the same on two
\* boards that differ only in clues with no unknown neighbour in the cell's
\* cluster, when on both boards the constraint list ends with at most
\* compareCap constraints.
C10_Independence ==
  Returned /\ Len(constraints) <= compareCap =>
    \A x \in UnknownPositions :
      LET other == WithCluesAtOne(board, FreeClues(board, x))
      IN  KeyOf(x) \in CellsOf(extracted) /\ other # board
            /\ Len(Propagate(other).cs) <= compareCap
          => result[KeyOf(x)] = calculateProbabilities(other, minesRemaining)[KeyOf(x)]

\* a cell with probability 1/2 whose cluster a changed clue leaves alone, while
\* the change moves the probability of another cell
C10_Witness ==
  /\ Returned
  /\ Len(constraints) <= compareCap
  /\ \E x \in UnknownPositions :
       LET other == WithCluesAtOne(board, FreeClues(board, x))
           there == calculateProbabilities(other, minesRemaining)
       IN  /\ KeyOf(x) \in CellsOf(extracted)
           /\ other # board
           /\ Len(Propagate(other).cs) <= compareCap
           /\ result[KeyOf(x)] = RHalf
           /\ \E k \in DOMAIN result : result[k] # there[k]

\* C11: calculateProbabilities and getDefinitiveCells leave the board as it
\* was: no step of either call changes rows, cols, mines, minesGenerated, or any
\* cell's isRevealed, isFlagged, isMine or adjacentMines.
C11_BoardUnchanged ==
  [][/\ board'.rows = board.rows
     /\ board'.cols = board.cols
     /\ board'.mines = board.mines
     /\ board'.minesGenerated = board.minesGenerated
     /\ DOMAIN board'.cells = DOMAIN board.cells
     /\ \A p \in DOMAIN board.cells :
          /\ board'.cells[p].isRevealed = board.cells[p].isRevealed
          /\ board'.cells[p].isFlagged = board.cells[p].isFlagged
          /\ board'.cells[p].isMine = board.cells[p].isMine
          /\ board'.cells[p].adjacentMines = board.cells[p].adjacentMines]_vars

\* both calls have returned on a board with a clue and a flag, with a cell
\* reported as a mine and a cell reported as safe
C11_Witness ==
  /\ pc = "definitive"
  /\ mineCells # {}
  /\ safeCells # {}
  /\ \E p \in DOMAIN Cells : Cells[p].isFlagged
  /\ \E p \in DOMAIN Cells : Cells[p].isRevealed /\ Cells[p].adjacentMines > 0

\* C13: getDefinitiveCells returns in safe the coordinates of exactly the cells
\* whose probability in calculateProbabilities(board, minesRemaining) is 0 and
\* in mines exactly those whose probability is 1; no coordinate is in both and
\* none has a probability strictly between 0 and 1.
ProbabilityAt(map, p) == map[KeyOf(p)]
C13_DefinitiveCells ==
  pc = "definitive" =>
    LET map == calculateProbabilities(board, minesRemaining)
        at(v) == {[row |-> p[1], col |-> p[2]] :
                    p \in {q \in Positions(board) : KeyOf(q) \in DOMAIN map /\ map[KeyOf(q)] = v}}
    IN  /\ safeCells = at(RZero)
        /\ mineCells = at(ROne)
        /\ safeCells \cap mineCells = {}
        /\ \A c \in safeCells \cup mineCells :
             /\ <<c.row, c.col>> \in Positions(board)
             /\ ProbabilityAt(map, <<c.row, c.col>>) \in {RZero, ROne}

\* a map with a safe cell, a mine and a cell strictly between, on a board wide
\* enough that the three lie in different columns
C13_Witness ==
  /\ pc = "definitive"
  /\ \E a \in safeCells : \E b \in mineCells : a.col # b.col
  /\ \E k \in DOMAIN result : result[k] # RZero /\ result[k] # ROne

\* The calls of solveConstraints made on leaving the loop (line 214): one for
\* each group of 1 to groupCellCap cells.
SolverCalls ==
  LET groups == partitionConstraints(Active)
      call(g) == LET group == GroupConstraints(Active, groups[g])
                 IN  [cells |-> CellOrder(group), constraints |-> group]
  IN  {c \in {call(g) : g \in 1..Len(groups)} :
         Len(c.cells) > 0 /\ Len(c.cells) <= groupCellCap}

\* An upper bound on the steps a call still has to take: the passes the loop
\* may still run, and the steps after the loop.
StepsLeft ==
  CASE pc = "ready"       -> maxIterations + 4
    [] pc = "propagating" -> (maxIterations - iterations) + 3
    [] pc = "solved"      -> 2
    [] pc = "done"        -> 1
    [] OTHER              -> 0

GrowsDisjoint(st, after) ==
  /\ st.ks \subseteq after.ks
  /\ st.km \subseteq after.km
  /\ after.ks \cap after.km = {}
LoopSteps ==
  LET st == [LoopState EXCEPT !.cs = <<>>]
  IN  {NarrowStep(constraints[i], st) : i \in 1..Len(constraints)}
        \cup {SubsetStep(constraints[ij[1]], constraints[ij[2]], LoopState) :
                ij \in {xy \in (1..Len(constraints)) \X (1..Len(constraints)) :
                          /\ xy[1] # xy[2]
                          /\ Len(constraints[xy[1]].cells) > 0
                          /\ IsStrictSubset(constraints[xy[1]], constraints[xy[2]])}}

\* C17: throughout a call the known-safe and known-mine sets are disjoint and
\* only grow: no step of the call takes a cell out of either set, no cell is in
\* both, and the same holds of every single narrowing or subset step taken from
\* a state of the loop.
C17_KnownSetsGrow ==
  /\ [](knownSafe \cap knownMines = {})
  /\ [][knownSafe \subseteq knownSafe' /\ knownMines \subseteq knownMines']_vars
  /\ [](pc = "propagating" => \A after \in LoopSteps : GrowsDisjoint(LoopState, after))

\* a pass has added cells to both sets, one of them by a subset deduction,
\* and a later pass has added more
C17_Witness ==
  /\ pc = "propagating"
  /\ iterations >= 2
  /\ knownSafe # {}
  /\ knownMines # {}
  /\ (knownSafe \cup knownMines) \ (forcedSafe \cup forcedMine) # {}

\* The derived constraints of the list: the narrowing rewrites every constraint
\* in its place and line 171 appends, so they are the entries after the
\* extracted ones.
DerivedIndices == (Len(extracted) + 1)..Len(constraints)
SameConstraint(c, d) == ToSet(c.cells) = ToSet(d.cells) /\ c.mines = d.mines

\* C18: at the end of propagation no two derived constraints of the list have
\* the same cell set and the same mine count.
C18_DerivedDeduplicated ==
  Solved =>
    \A i \in DerivedIndices : \A j \in DerivedIndices :
      i # j => ~SameConstraint(constraints[i], constraints[j])

\* C19: the loop stops at a fixpoint. It goes on only while every pass so far
\* has found something new, it stops only after a pass that found nothing new
\* or at the cap, and it is at the cap only if every pass found something new.
C19_StopsAtFixpoint ==
  /\ pc = "propagating" /\ LoopContinues(LoopState) => idlePasses = 0
  /\ Solved => idlePasses >= 1 \/ iterations = maxIterations
  /\ AfterPass /\ iterations = maxIterations => idlePasses = 0

\* A step that is one pass of the loop. The pass narrows the constraints the
\* list holds, each in its place, and appends what it derives: after the step
\* the first Len(constraints) entries of constraints' are the list the subset
\* analysis compared, the later ones the constraints it derived.
PassTaken == pc = "propagating" /\ iterations' = iterations + 1
ComparedPairs ==
  {ij \in (1..Len(constraints)) \X (1..Len(constraints)) :
     /\ ij[1] # ij[2]
     /\ Len(constraints'[ij[1]].cells) > 0
     /\ IsStrictSubset(constraints'[ij[1]], constraints'[ij[2]])}
\* Subset derivation has been applied to the pair: with a mine count of the
\* difference of 0 or of its size every cell of the difference is known, with a
\* count between the two the difference is among the derived constraints.
DerivationApplied(ij) ==
  LET c1 == constraints'[ij[1]]
      c2 == constraints'[ij[2]]
      difference == ToSet(c2.cells) \ ToSet(c1.cells)
      diffMines == c2.mines - c1.mines
  IN  diffMines >= 0 =>
        IF diffMines = 0 \/ diffMines = Cardinality(difference)
        THEN difference \subseteq knownSafe' \cup knownMines'
        ELSE \E k \in (Len(constraints) + 1)..Len(constraints') :
               /\ ToSet(constraints'[k].cells) = difference
               /\ constraints'[k].mines = diffMines

\* C20 as written: every pass applies subset derivation to every ordered pair
\* of non-empty constraints with the first's cells strictly inside the second's.
C20_EveryPairAsWritten ==
  [][PassTaken => \A ij \in ComparedPairs : DerivationApplied(ij)]_vars

\* C20: every pass applies it to every such pair whose first constraint is
\* among the first compareCap constraints of the list.
C20_EveryPair ==
  [][PassTaken => \A ij \in ComparedPairs : ij[1] <= compareCap => DerivationApplied(ij)]_vars

\* a list of more than compareCap constraints after a pass in which a subset
\* deduction found a mine that no constraint forces alone
C20_Witness ==
  /\ pc = "propagating"
  /\ iterations >= 1
  /\ Len(constraints) > compareCap
  /\ knownMines \ forcedMine # {}

\* C15: in every state the game reaches through newGame, revealCell, toggleFlag,
\* chord and the restoreState of a saved snapshot, gameState.minesRemaining,
\* the value Controls hands to calculateProbabilities, is zero or more.
C15_MinesRemainingNonNegative == gameState.minesRemaining >= 0

\* C16: with learning mode on, the mines generated and no mine revealed, the
\* map the Renderer holds after every completed operation of the game is the
\* calculator Controls calls applied to the engine's board and minesRemaining
\* as they are now; no map of an earlier board stays on display.
MineRevealed == \E p \in Positions(board) : board.cells[p].isMine /\ board.cells[p].isRevealed
C16_MapIsCurrent ==
  (learningModeEnabled /\ board.minesGenerated /\ ~MineRevealed)
    => rendererProbabilities = calculateProbabilitiesBasic(board, gameState.minesRemaining)
\* a cascade has revealed cells, a flag stands, and the map shows a cell in doubt
C16_Witness ==
  /\ learningModeEnabled
  /\ board.minesGenerated
  /\ ~MineRevealed
  /\ gameState.cellsRevealed >= 2
  /\ \E p \in Positions(board) : board.cells[p].isFlagged
  /\ Len(stateHistory) >= 2
  /\ \E k \in DOMAIN rendererProbabilities : rendererProbabilities[k] \notin {RZero, ROne}

\* C21: a component of more than groupCellCap cells is not enumerated: each of
\* its cells that has no value yet gets the plain mean, over the constraints of
\* the component that hold the cell, of mines / number of cells, clamped to [0,1].
LocalRatio(c) == Rat(c.mines, Len(c.cells))
LargeGroups ==
  LET groups == partitionConstraints(Active)
  IN  {group \in {GroupConstraints(Active, groups[g]) : g \in 1..Len(groups)} :
         Cardinality(CellsOf(group)) > groupCellCap}
\* the mean of the ratios of the constraints of the group that hold each cell
MeanRatios(group) ==
  LET ratio == [i \in 1..Len(group) |-> LocalRatio(group[i])]
      cellSet == [i \in 1..Len(group) |-> ToSet(group[i].cells)]
      holding == [key \in CellsOf(group) |-> {i \in 1..Len(group) : key \in cellSet[i]}]
  IN  [key \in CellsOf(group) |->
         RDivInt(SumOver(holding[key], ratio), Cardinality(holding[key]))]
C21_AveragingFallback ==
  Solved =>
    \A group \in LargeGroups :
      LET mean == MeanRatios(group)
      IN  \A key \in CellsOf(group) \ (knownSafe \cup knownMines) :
            /\ key \in DOMAIN result
            /\ result[key] = RMax(RZero, RMin(ROne, mean[key]))
\* a large component with a cell whose mean is above 1 and is clamped, and a
\* cell whose mean lies strictly between 0 and 1
C21_Witness ==
  /\ Solved
  /\ \E group \in LargeGroups :
       LET mean == MeanRatios(group)
           open == CellsOf(group) \ (knownSafe \cup knownMines)
       IN  /\ \E key \in open : ~RLe(mean[key], ROne) /\ result[key] = ROne
           /\ \E key \in open : result[key] \notin {RZero, RHalf, ROne}

\* C22: the unrevealed, unflagged cells that are in no constraint and were not
\* deduced safe or mine all get one value: what is left of
\* max(0, minesRemaining - |knownMines|) after the probabilities of the frontier
\* cells are taken off, not below 0, divided by the number of such cells and
\* clamped to [0,1]; with no such cell nothing more is assigned. Both versions.
NonFrontierShare(map, frontier, nonFrontier, km, mr) ==
  LET left == RSub(RInt(Max2(0, mr - Cardinality(km))),
                   SumOver(frontier, [k \in frontier |-> map[k]]))
      share == RDivInt(RMax(RZero, left), Cardinality(nonFrontier))
  IN  RMax(RZero, RMin(ROne, share))
NonFrontierFilled(map, cs, ks, km, unrevealed, mr) ==
  LET constrained == CellsOf(activeConstraints(cs))
      frontier == constrained \ (ks \cup km)
      nonFrontier == unrevealed \ (constrained \cup ks \cup km)
  IN  /\ DOMAIN map \ (constrained \cup ks \cup km) = nonFrontier
      /\ nonFrontier # {} =>
           \A k \in nonFrontier : map[k] = NonFrontierShare(map, frontier, nonFrontier, km, mr)
C22_NonFrontier ==
  /\ pc = "done" =>
       NonFrontierFilled(result, constraints, knownSafe, knownMines, unrevealedCells,
                         minesRemaining)
  /\ pc = "doneBasic" =>
       LET st == BasicPropagate(board)
       IN  NonFrontierFilled(result, st.cs, st.ks, st.km, UnrevealedOf(board), minesRemaining)
\* a deduced mine, frontier cells, and cells in no constraint that share what
\* is left, a value strictly between 0 and 1
C22_Witness ==
  /\ pc = "done"
  /\ knownMines # {}
  /\ CellsOf(Active) \ (knownSafe \cup knownMines) # {}
  /\ \E k \in unrevealedCells \ (CellsOf(Active) \cup knownSafe \cup knownMines) :
       result[k] \notin {RZero, ROne}

\* C23: when some placement of exactly minesRemaining mines on the unrevealed,
\* unflagged cells satisfies every extracted constraint, each cell that
\* getDefinitiveCells reports safe is free of mines in every such placement and
\* each cell it reports as a mine holds one in every such placement.
Placements ==
  {M \in SUBSET {KeyOf(p) : p \in UnknownPositions} :
     /\ Cardinality(M) = minesRemaining
     /\ \A i \in 1..Len(extracted) : MinesIn(M, extracted[i]) = extracted[i].mines}
ReportedSafe == {cellKey(c.row, c.col) : c \in safeCells}
ReportedMines == {cellKey(c.row, c.col) : c \in mineCells}
C23_DefinitiveSound ==
  pc = "definitive" /\ Placements # {} =>
    \A M \in Placements : ReportedSafe \cap M = {} /\ ReportedMines \subseteq M

\* What the game claims speak of. MinesPlaced: the generator has placed as
\* many mines as the board was configured with.
MineCells == {p \in DOMAIN Cells : Cells[p].isMine}
MinesPlaced == board.minesGenerated /\ Cardinality(MineCells) = board.mines
GameOver == observed.won > 0 \/ observed.lost > 0

\* C24: once a reveal has hit a mine or the win condition was met, and until
\* the next new game or restored state, the status is 'lost' or 'won' (so that
\* revealCell, toggleFlag and chord return false at their first line).
C24_GameOverIsFinal ==
  MinesPlaced /\ GameOver => gameState.status \in {"won", "lost"}

\* C25: between two consecutive 'new-game' / 'state-restored' events
\* 'game-won' is emitted at most once, 'game-lost' at most once, and never both.
C25_OneTerminalEvent ==
  MinesPlaced =>
    /\ observed.won <= 1
    /\ observed.lost <= 1
    /\ ~(observed.won > 0 /\ observed.lost > 0)

\* C26: whenever 'game-won' is emitted, every cell without a mine is revealed
\* and no mine cell has been revealed.
C26_WonMeansCleared ==
  MinesPlaced => ~observed.wonUnsound

\* C27: after the first successful revealCell(r, c) of a game neither (r, c)
\* nor any of its neighbours is a mine, and that click did not emit 'game-lost'.
C27_FirstClickSafe ==
  board.minesGenerated /\ observed.firstClick # <<>> =>
    /\ \A q \in DOMAIN Cells :
         (q = observed.firstClick \/ Adjacent(q, observed.firstClick)) => ~Cells[q].isMine
    /\ ~observed.firstClickLost
\* a first click in a corner with every mine placed, one of them two steps away
C27_Witness ==
  /\ MinesPlaced
  /\ observed.firstClick = <<0, 0>>
  /\ Cells[<<0, 0>>].isRevealed
  /\ Cells[<<0, 2>>].isMine
  /\ observed.last = "move"
  /\ observed.before.cellsRevealed = 0

\* C29: once Controls.undo has restored a state, gameState.hasUsedUndo is true
\* for the rest of the game, and no 'game-won' of that game saves a high score.
C29_UndoTaints ==
  /\ observed.undone => gameState.hasUsedUndo
  /\ ~observed.savedAfterUndo

\* C30: after a reveal, flag or chord that changed the board, a single
\* Controls.undo leaves every cell, cellsRevealed and minesRemaining as they
\* were immediately before that move.
C30_UndoRevertsOneMove ==
  observed.last = "undone" =>
    /\ board.cells = observed.before.cells
    /\ gameState.cellsRevealed = observed.before.cellsRevealed
    /\ gameState.minesRemaining = observed.before.minesRemaining

\* C28: for every configuration isValidConfig accepts and every first click,
\* generateMines places exactly board.mines mines.
C28_AllMinesPlaced ==
  board.minesGenerated => Cardinality(MineCells) = board.mines

\* C31: after any calls of saveState, undo, clear and setMaxHistorySize the
\* history holds at most maxHistorySize snapshots, and that maximum is at least
\* 1; a saveState leaves the newest snapshots, in the order they were saved,
\* the oldest dropped when there would be more than the maximum.
Newest(all, n) == SubSeq(all, Len(all) - n + 1, Len(all))
C31_HistoryBounded ==
  /\ maxHistorySize >= 1
  /\ Len(stateHistory) <= maxHistorySize
  /\ observed.last = "saveState" =>
       LET all == observed.before \o observed.given
       IN  stateHistory = Newest(all, Min2(Len(all), maxHistorySize))
\* a saveState on a full history of three different snapshots
C31_Witness ==
  /\ observed.last = "saveState"
  /\ maxHistorySize = MaxSize
  /\ Len(observed.before) = maxHistorySize
  /\ Cardinality({observed.before[i] : i \in 1..Len(observed.before)}) = ManagerStates
  /\ observed.given # <<observed.before[1]>>

\* C32: StateManager.undo returns null and leaves the history as it is exactly
\* when there are fewer than two snapshots; otherwise it removes the newest
\* snapshot only and returns the one saved before it, which getCurrentState
\* then returns too.
C32_UndoReturnsPrevious ==
  observed.last = "undo" =>
    LET n == Len(observed.before)
    IN  /\ n < 2 => observed.returned = Null /\ stateHistory = observed.before
        /\ observed.returned = Null => n < 2
        /\ n >= 2 =>
             /\ stateHistory = SubSeq(observed.before, 1, n - 1)
             /\ observed.returned = <<observed.before[n - 1]>>
             /\ getCurrentState(stateHistory) = observed.returned
\* an undo on three snapshots, the two newest different
C32_Witness ==
  /\ observed.last = "undo"
  /\ Len(observed.before) = 3
  /\ observed.before[2] # observed.before[3]
  /\ Len(stateHistory) = 2

\* C33: snapshot isolation. No step other than a new game, which clears the
\* history, changes a snapshot the history keeps: not a reveal, a flag, a chord
\* or a tick of the timer, whether the snapshot was restored before or not.
\* When a snapshot is removed, the engine's state is the newest one kept; and
\* the board an undo restores a second time, after one move, is the board it
\* restored the first time.
C33_SnapshotIsolation ==
  /\ [][/\ NewGame \/ \A i \in 1..Min2(Len(stateHistory), Len(stateHistory')) :
                        stateHistory'[i] = stateHistory[i]
        /\ Len(stateHistory') < Len(stateHistory)
             => ([board |-> board'] @@ gameState') = stateHistory'[Len(stateHistory')]]_vars
  /\ [](observed.chain = 3 => board.cells = observed.before.cells)

\* an undo, a move that reveals a cell, and the undo that restores the same
\* snapshot again, the timer running
C33_Witness ==
  /\ observed.chain = 3
  /\ timerInterval # 0
  /\ gameState.elapsedTime > 0
  /\ observed.before.cellsRevealed > 0

\* the cells of the board that carry a flag
FlaggedCells == {p \in Positions(board) : board.cells[p].isFlagged}

\* C34: in every state reached through new games, reveals, flags, chords and
\* the restoring of a saved snapshot, gameState.minesRemaining is the board's
\* number of mines less the number of flagged cells.
C34_CounterMatchesFlags ==
  gameState.minesRemaining = board.mines - Cardinality(FlaggedCells)

\* more flags than mines, set after an undo restored a snapshot
C34_Witness ==
  /\ observed.undone
  /\ board.minesGenerated
  /\ Cardinality(FlaggedCells) > board.mines
  /\ gameState.cellsRevealed > 0

\* no mine of the board is revealed
NoMineRevealed == \A p \in Positions(board) : ~(board.cells[p].isMine /\ board.cells[p].isRevealed)

\* the hidden cells without a flag next to a revealed cell that counts no mine
BesideZero ==
  {p \in Positions(board) :
     /\ ~board.cells[p].isRevealed
     /\ ~board.cells[p].isFlagged
     /\ \E z \in ToSet(getNeighbors(board, p[1], p[2])) :
          board.cells[z].isRevealed /\ board.cells[z].adjacentMines = 0}

\* C35: while no mine is revealed, every neighbour of a revealed cell with
\* adjacentMines = 0 is revealed or flagged. It fails: the cascade passes over a
\* flagged cell, and toggleFlag then takes the flag away.
C35_ZeroNeighboursOpen ==
  (MinesPlaced /\ NoMineRevealed) => BesideZero = {}

\* C36: while no mine is revealed, no cell is both flagged and revealed.
C36_NoFlaggedRevealed ==
  NoMineRevealed =>
    \A p \in Positions(board) : ~(board.cells[p].isFlagged /\ board.cells[p].isRevealed)

\* a cascade has passed over a flagged cell next to the clicked cell
C36_Witness ==
  /\ MinesPlaced
  /\ NoMineRevealed
  /\ \E p \in Positions(board) :
       /\ board.cells[p].isFlagged
       /\ ~board.cells[p].isMine
       /\ \E z \in ToSet(getNeighbors(board, p[1], p[2])) :
            /\ board.cells[z].isRevealed
            /\ board.cells[z].adjacentMines = 0
            /\ observed.firstClick = z

\* C37: whenever the mines are generated, no 'game-won' or 'game-lost' has
\* been emitted for the state the engine holds and elapsedTime is below 9999,
\* the timer's interval is set, and never more than one interval is. It fails:
\* endGame clears the interval at a loss and restoreState does not set it again
\* when Controls.undo goes back before the loss, nor when Controls.resumeGame
\* restores a saved game.
C37_TimerRuns ==
  /\ timerInterval <= 1
  /\ (MinesPlaced /\ ~GameOver /\ gameState.status = "playing"
        /\ gameState.elapsedTime < timeCap)
       => timerInterval = 1

====
